---- MODULE Spec2Model ----
(***************************************************************************)
(* Verification model of psm14/bambu-lan-viewer (backend/server).          *)
(*                                                                         *)
(* The module holds several state machines over one set of variables:      *)
(*   SpecDep   - H264RtpDepacketizer::handle fed with RTP packets          *)
(*   SpecStap  - STAP-A versus single-NAL packet delivery of [A,B,C]       *)
(*   SpecCmaf  - CmafSegmenter driven by run_rtsp_hls sessions             *)
(*   SpecConn  - one per-device RTSP runner with its RtspConnection        *)
(*   SpecSup   - create / update / delete of a device and its tasks        *)
(* Each specification leaves the variables of the other machines at their  *)
(* initial values.                                                         *)
(***************************************************************************)
EXTENDS Integers, Sequences, FiniteSets, TLC

\* Option<T>: None is the empty sequence, Some(x) the one-element sequence.
None == <<>>
Some(x) == <<x>>

RECURSIVE SumSeq(_)
SumSeq(s) == IF s = <<>> THEN 0 ELSE Head(s) + SumSeq(Tail(s))

Max2(a, b) == IF a >= b THEN a ELSE b

(***************************************************************************)
(* H.264 RTP depacketizer (rtsp/depacketizer.rs)                           *)
(***************************************************************************)
VARIABLES
  dep,        \* the H264RtpDepacketizer fields
  depOut,     \* the Vec<AccessUnit> returned by the last handle call
  depRun,     \* observer: the run of same-timestamp packets being fed
  depFu,      \* observer: the FU-A fragment series being fed
  depCount,   \* number of packets handled
  depTake     \* observer: what take_parameter_sets has returned

depVars == <<dep, depOut, depRun, depFu, depCount, depTake>>

MAX_ACCESS_UNIT_BYTES == 8388608
MAX_FU_BUFFER_BYTES == 4194304

\* Number of packets fed to one depacketizer.
MaxPackets == 4

\* RTP timestamps, sequence numbers and payloads the packets are drawn from.
RtpTimestamps == {1000, 4000}
RtpSequences == {65535, 0, 1}

NalSlice == <<65, 154>>          \* 0x41: non-IDR slice
NalIdr == <<101, 136>>           \* 0x65: IDR slice
NalSps == <<103, 66>>            \* 0x67: SPS
NalPps == <<104, 206>>           \* 0x68: PPS
NalSei == <<6>>                  \* 0x06: SEI, one byte
FuStart == <<124, 133, 170>>     \* FU-A, S=1, type 5
FuMiddle == <<124, 5, 187>>      \* FU-A, S=0 E=0
FuEnd == <<124, 69, 204>>        \* FU-A, E=1
FuHeaderOnly == <<124, 5>>       \* FU-A with no fragment data
StapSpsPps == <<24, 0, 2, 103, 66, 0, 2, 104, 206>>
StapTruncated == <<24, 0, 9, 65>>

RtpPayloads ==
  { NalSlice, NalIdr, NalSps, FuStart, FuMiddle, FuEnd, StapSpsPps,
    StapTruncated, FuHeaderOnly, <<>>, <<0, 1>> }

RtpPackets ==
  [ marker : BOOLEAN, sequence_number : RtpSequences,
    timestamp : RtpTimestamps, payload : RtpPayloads ]

NalType(nal) == IF nal = <<>> THEN None ELSE Some(nal[1] % 32)

DepNew ==
  [ current_access_unit |-> <<>>,
    current_timestamp |-> None,
    current_access_unit_bytes |-> 0,
    fu_buffer |-> None,
    fu_sequence |-> None,
    sps |-> None,
    pps |-> None,
    parameter_sets_dirty |-> FALSE ]

IsIdr(nals) == \E i \in 1..Len(nals) : NalType(nals[i]) = Some(5)

\* build_access_unit: the unit and the depacketizer after the take.
BuildAccessUnit(d, timestamp) ==
  [ unit |-> [ nals |-> d.current_access_unit,
               rtp_timestamp |-> timestamp,
               is_idr |-> IsIdr(d.current_access_unit) ],
    dep |-> [ d EXCEPT !.current_access_unit = <<>>,
                       !.current_timestamp = None,
                       !.current_access_unit_bytes = 0 ] ]

AppendNal(d, nal, timestamp) ==
  LET d1 == IF d.current_timestamp = None
            THEN [ d EXCEPT !.current_timestamp = Some(timestamp) ]
            ELSE d
      d2 == IF NalType(nal) = Some(7)
            THEN [ d1 EXCEPT !.sps = Some(nal),
                             !.parameter_sets_dirty = (d1.pps # None) ]
            ELSE IF NalType(nal) = Some(8)
            THEN [ d1 EXCEPT !.pps = Some(nal),
                             !.parameter_sets_dirty = (d1.sps # None) ]
            ELSE d1
  IN [ d2 EXCEPT !.current_access_unit_bytes = @ + Len(nal),
                 !.current_access_unit = Append(@, nal) ]

\* A faulty variant of the operator below: the test with the last NAL of a packet cut off.
StapOverrunOffByOne(index, size, len) == index + size >= len

\* The bound test of the STAP-A loop: the announced size runs past the payload.
StapOverrun(index, size, len) == index + size > len

\* extract_stap_a: index is the 0-based read position after the STAP header.
RECURSIVE StapLoop(_, _, _)
StapLoop(payload, index, nals) ==
  IF index + 2 <= Len(payload)
  THEN LET size == payload[index + 1] * 256 + payload[index + 2]
           at == index + 2
       IN IF StapOverrun(at, size, Len(payload))
          THEN nals
          ELSE StapLoop(payload, at + size,
                        Append(nals, SubSeq(payload, at + 1, at + size)))
  ELSE nals

ExtractStapA(payload) ==
  IF Len(payload) <= 1 THEN <<>> ELSE StapLoop(payload, 1, <<>>)

\* A faulty variant of the operator below: sequence numbers are not looked at.
FuGapIgnored(fu_sequence, sequence) == FALSE

\* The sequence test of an FU-A continuation: a gap drops the reassembly.
FuGap(fu_sequence, sequence) ==
  fu_sequence # None /\ sequence # (fu_sequence[1] + 1) % 65536

\* extract_fu_a: the NALs produced and the depacketizer afterwards.
ExtractFuA(d, payload, sequence) ==
  IF Len(payload) <= 2 THEN [ nals |-> <<>>, dep |-> d ]
  ELSE
    LET fu_indicator == payload[1]
        fu_header == payload[2]
        start == (fu_header \div 128) % 2 = 1
        end == (fu_header \div 64) % 2 = 1
        nal_type == fu_header % 32
        nal_header == (fu_indicator \div 32) * 32 + nal_type
        rest == SubSeq(payload, 3, Len(payload))
    IN IF start
       THEN [ nals |-> <<>>,
              dep |-> [ d EXCEPT !.fu_buffer = Some(<<nal_header>> \o rest),
                                 !.fu_sequence = Some(sequence) ] ]
       ELSE IF FuGap(d.fu_sequence, sequence)
       THEN [ nals |-> <<>>,
              dep |-> [ d EXCEPT !.fu_buffer = None, !.fu_sequence = None ] ]
       ELSE IF d.fu_buffer = None
       THEN [ nals |-> <<>>, dep |-> d ]
       ELSE LET buffer == d.fu_buffer[1] \o rest
            IN IF Len(buffer) > MAX_FU_BUFFER_BYTES
               THEN [ nals |-> <<>>,
                      dep |-> [ d EXCEPT !.fu_buffer = None,
                                         !.fu_sequence = None ] ]
               ELSE IF end
               THEN [ nals |-> <<buffer>>,
                      dep |-> [ d EXCEPT !.fu_buffer = None,
                                         !.fu_sequence = None ] ]
               ELSE [ nals |-> <<>>,
                      dep |-> [ d EXCEPT !.fu_buffer = Some(buffer),
                                         !.fu_sequence = Some(sequence) ] ]

ExtractNals(d, packet) ==
  LET payload == packet.payload
  IN IF payload = <<>> THEN [ nals |-> <<>>, dep |-> d ]
     ELSE LET nal_type == payload[1] % 32
          IN IF nal_type >= 1 /\ nal_type <= 23
             THEN [ nals |-> <<payload>>, dep |-> d ]
             ELSE IF nal_type = 24
             THEN [ nals |-> ExtractStapA(payload), dep |-> d ]
             ELSE IF nal_type = 28
             THEN ExtractFuA(d, payload, packet.sequence_number)
             ELSE [ nals |-> <<>>, dep |-> d ]

\* A faulty variant of the operator below: the marker bit is not looked at.
MarkerFlushNever(d, packet) == FALSE

\* The marker test at the end of handle.
MarkerFlush(d, packet) ==
  packet.marker /\ d.current_timestamp # None /\ d.current_access_unit # <<>>

\* The for loop of handle over the extracted NALs.
RECURSIVE AppendLoop(_, _, _, _)
AppendLoop(d, nals, timestamp, output) ==
  IF nals = <<>> THEN [ dep |-> d, output |-> output ]
  ELSE LET d1 == AppendNal(d, Head(nals), timestamp)
       IN IF d1.current_access_unit_bytes >= MAX_ACCESS_UNIT_BYTES
             /\ d1.current_timestamp # None
          THEN LET b == BuildAccessUnit(d1, d1.current_timestamp[1])
               IN AppendLoop(b.dep, Tail(nals), timestamp,
                             Append(output, b.unit))
          ELSE AppendLoop(d1, Tail(nals), timestamp, output)

\* H264RtpDepacketizer::handle: the returned units and the new fields.
Handle(d, packet) ==
  LET boundary == /\ d.current_timestamp # None
                  /\ d.current_timestamp[1] # packet.timestamp
                  /\ d.current_access_unit # <<>>
      b0 == BuildAccessUnit(d, d.current_timestamp[1])
      d0 == IF boundary THEN b0.dep ELSE d
      out0 == IF boundary THEN <<b0.unit>> ELSE <<>>
      ex == ExtractNals(d0, packet)
      lp == AppendLoop(ex.dep, ex.nals, packet.timestamp, out0)
  IN IF MarkerFlush(lp.dep, packet)
     THEN LET b1 == BuildAccessUnit(lp.dep, lp.dep.current_timestamp[1])
          IN [ dep |-> b1.dep, output |-> Append(lp.output, b1.unit),
               nals |-> ex.nals ]
     ELSE [ dep |-> lp.dep, output |-> lp.output, nals |-> ex.nals ]


\* One packet goes through handle; the observers follow what was fed.
\* depRun follows a run of packets that began with no access unit in progress
\* and share one timestamp, up to the first packet with the marker bit.
NoRun ==
  [ open |-> FALSE, closed |-> FALSE, ts |-> 0, emitted |-> <<>>, nals |-> 0,
    bytes |-> 0, packets |-> 0 ]

RECURSIVE UnitTimestamps(_)
UnitTimestamps(units) ==
  IF units = <<>> THEN <<>>
  ELSE <<Head(units).rtp_timestamp>> \o UnitTimestamps(Tail(units))

RECURSIVE NalBytes(_)
NalBytes(nals) ==
  IF nals = <<>> THEN 0 ELSE Len(Head(nals)) + NalBytes(Tail(nals))

RunAfter(run, d, packet, r) ==
  LET base == IF run.open /\ packet.timestamp = run.ts THEN run
              ELSE IF d.current_access_unit = <<>>
              THEN [ NoRun EXCEPT !.open = TRUE, !.ts = packet.timestamp ]
              ELSE NoRun
  IN IF ~base.open THEN NoRun
     ELSE [ open |-> ~packet.marker,
            closed |-> packet.marker,
            ts |-> base.ts,
            emitted |-> base.emitted \o UnitTimestamps(r.output),
            nals |-> base.nals + Len(r.nals),
            bytes |-> base.bytes + NalBytes(r.nals),
            packets |-> base.packets + 1 ]

\* depFu follows the FU-A fragments (packets of type 28 that carry fragment
\* data): prev is the sequence number of the previous fragment of the series
\* in progress, broken is set from a gap until the next Start fragment, and
\* leaked records a NAL coming out of a series after its gap.
NoFu == [ prev |-> None, broken |-> FALSE, gaps |-> 0, leaked |-> FALSE ]

IsFuFragment(packet) ==
  Len(packet.payload) > 2 /\ packet.payload[1] % 32 = 28

FuAfter(fu, packet, r) ==
  IF ~IsFuFragment(packet) THEN fu
  ELSE
    LET start == (packet.payload[2] \div 128) % 2 = 1
        end == (packet.payload[2] \div 64) % 2 = 1
        gap == /\ fu.prev # None
               /\ packet.sequence_number # (fu.prev[1] + 1) % 65536
    IN IF start
       THEN [ fu EXCEPT !.prev = Some(packet.sequence_number),
                        !.broken = FALSE ]
       ELSE IF fu.broken \/ gap
       THEN [ fu EXCEPT !.prev = None, !.broken = TRUE,
                        !.gaps = IF gap THEN @ + 1 ELSE @,
                        !.leaked = @ \/ r.nals # <<>> ]
       ELSE IF fu.prev = None THEN fu
       ELSE [ fu EXCEPT !.prev = IF end THEN None
                                 ELSE Some(packet.sequence_number) ]

\* take_parameter_sets: what it returns and the depacketizer after it.
TakeParameterSets(d) ==
  IF d.parameter_sets_dirty
  THEN [ dep |-> [ d EXCEPT !.parameter_sets_dirty = FALSE ],
         result |-> IF d.sps # None /\ d.pps # None
                    THEN Some(<<d.sps[1], d.pps[1]>>) ELSE None ]
  ELSE [ dep |-> d, result |-> None ]

\* result is what the last call of take_parameter_sets returned, previous
\* the pair that the successful call before it returned.
NoTake == [ result |-> None, previous |-> None ]

DepInit ==
  /\ dep = DepNew
  /\ depOut = <<>>
  /\ depRun = NoRun
  /\ depFu = NoFu
  /\ depCount = 0
  /\ depTake = NoTake

DepHandle ==
  /\ depCount < MaxPackets
  /\ \E packet \in RtpPackets :
       LET r == Handle(dep, packet)
       IN /\ dep' = r.dep
          /\ depOut' = r.output
          /\ depRun' = RunAfter(depRun, dep, packet, r)
          /\ depFu' = FuAfter(depFu, packet, r)
          /\ depTake' = depTake
  /\ depCount' = depCount + 1

\* The caller takes the parameter sets (run_session does after every
\* packet).
DepTake ==
  /\ \E taken \in {TakeParameterSets(dep)} :
       /\ dep' = taken.dep
       /\ depTake' = [ result |-> taken.result,
                       previous |-> IF depTake.result # None
                                    THEN depTake.result
                                    ELSE depTake.previous ]
  /\ UNCHANGED <<depOut, depRun, depFu, depCount>>

(***************************************************************************)
(* STAP-A against single-NAL delivery (rtsp/depacketizer.rs)               *)
(***************************************************************************)
VARIABLES
  stapIn,     \* the NALs [A, B, C], their timestamp and first sequence number
  stapA,      \* depacketizer and output fed with one STAP-A packet
  stapB,      \* depacketizer and output fed with three single-NAL packets
  stapPc      \* packets fed so far on each side

stapVars == <<stapIn, stapA, stapB, stapPc>>

\* NAL units that a single-NAL packet can carry (types 1..23).
SingleNals == { NalSlice, NalIdr, NalSps, NalPps, NalSei, <<65>> }

\* The payload of a STAP-A packet aggregating nals: the STAP-A header byte,
\* then each NAL behind its 16-bit big-endian size.
RECURSIVE StapBody(_)
StapBody(nals) ==
  IF nals = <<>> THEN <<>>
  ELSE <<Len(Head(nals)) \div 256, Len(Head(nals)) % 256>> \o Head(nals)
         \o StapBody(Tail(nals))

StapPayload(nals) == <<24>> \o StapBody(nals)

StapFresh == [ dep |-> DepNew, output |-> <<>> ]

StapInit ==
  /\ stapIn \in [ nals : [1..3 -> SingleNals], timestamp : RtpTimestamps,
                  sequence_number : RtpSequences ]
  /\ stapA = StapFresh
  /\ stapB = StapFresh
  /\ stapPc = [ a |-> 0, b |-> 0 ]

StapIdle ==
  /\ stapIn = [ nals |-> <<NalSlice, NalSlice, NalSlice>>, timestamp |-> 1000,
                sequence_number |-> 0 ]
  /\ stapA = StapFresh
  /\ stapB = StapFresh
  /\ stapPc = [ a |-> 0, b |-> 0 ]

\* One STAP-A packet with the marker bit.
StapFeedAggregate ==
  /\ stapPc.a = 0
  /\ LET packet == [ marker |-> TRUE,
                     sequence_number |-> stapIn.sequence_number,
                     timestamp |-> stapIn.timestamp,
                     payload |-> StapPayload(stapIn.nals) ]
         r == Handle(stapA.dep, packet)
     IN stapA' = [ dep |-> r.dep, output |-> stapA.output \o r.output ]
  /\ stapPc' = [ stapPc EXCEPT !.a = 1 ]
  /\ UNCHANGED <<stapIn, stapB>>

\* The next of the three single-NAL packets; the marker bit is on the last.
StapFeedSingle ==
  /\ stapPc.b < 3
  /\ LET k == stapPc.b + 1
         packet == [ marker |-> (k = 3),
                     sequence_number |->
                       (stapIn.sequence_number + stapPc.b) % 65536,
                     timestamp |-> stapIn.timestamp,
                     payload |-> stapIn.nals[k] ]
         r == Handle(stapB.dep, packet)
     IN stapB' = [ dep |-> r.dep, output |-> stapB.output \o r.output ]
  /\ stapPc' = [ stapPc EXCEPT !.b = @ + 1 ]
  /\ UNCHANGED <<stapIn, stapA>>


(***************************************************************************)
(* CMAF segmenter, playlist and live stream (rtsp/cmaf.rs, rtsp/stream.rs, *)
(* rtsp/pipeline.rs).  Durations and PTS are in 90 kHz ticks; a file is    *)
(* the list of the parts appended to it plus the bytes of a torn write.    *)
(***************************************************************************)
VARIABLES
  seg,        \* Option<CmafSegmenter>: None between two sessions
  dir,        \* the output directory {cmaf_root}/{id}
  stream,     \* the CmafStream of the device's PrinterRuntime
  cmafCfg,    \* the settings the segmenter is created with
  cmafObs     \* observer: what the sessions have pushed, written and sent;
              \* emitted is the last part: the PTS of its samples, the
              \* durations of its trun, and last_sample_duration before

cmafVars == <<seg, dir, stream, cmafCfg, cmafObs>>

\* cmaf_target_duration_secs 2.0 and cmaf_part_duration_secs 0.333, in ticks.
TargetTicks == 180000
PartTicks == 29970
\* 0.1 s, the duration of a segment whose PTS did not advance, and 0.001 s,
\* the least part duration.
MinSegmentTicks == 9000
MinPartTicks == 90
FallbackSampleTicks == 3000

\* The u32 and u64 counters of the code (sequence numbers, byte offsets,
\* part indexes, CSeq) wrap or saturate at their width; the runs followed
\* here keep them far below it, so their arithmetic is written unbounded.

\* Bounds of the runs: access units pushed, sessions started, the largest
\* configured window and the backlog capacity of the stream.
MaxUnits == 5
MaxSessions == 2
MaxWindow == 2
BacklogCapacity == 2

\* PTS steps between two access units and the shapes of access units: is_idr
\* and the lengths of the NALs.
PtsSteps == {3000, 90000}
AccessUnits ==
  { [ is_idr |-> TRUE, nals |-> <<2, 20>> ],
    [ is_idr |-> FALSE, nals |-> <<7>> ] }

SatSub(a, b) == IF a > b THEN a - b ELSE 0

\* build_avc_sample: every NAL behind its 4-byte length.
RECURSIVE AvcSampleLen(_)
AvcSampleLen(nals) ==
  IF nals = <<>> THEN 0 ELSE 4 + Head(nals) + AvcSampleLen(Tail(nals))

StypLen == 36
MoofLen(n) == 8 + 16 + (8 + 16 + 20 + (8 + 12 + 12 * n))

RECURSIVE SampleBytes(_)
SampleBytes(samples) ==
  IF samples = <<>> THEN 0
  ELSE AvcSampleLen(Head(samples).nals) + SampleBytes(Tail(samples))

MdatLen(samples) == 8 + SampleBytes(samples)

\* The length of styp + moof + mdat of one part.
PartBytesLen(samples) ==
  StypLen + MoofLen(Len(samples)) + MdatLen(samples)

\* compute_sample_durations: the u32 durations and their u64 total.
RECURSIVE SampleDurations(_, _, _, _)
SampleDurations(samples, last_sample_duration, part_ticks, i) ==
  IF i > Len(samples) THEN <<>>
  ELSE
    LET before == SampleDurations(samples, last_sample_duration, part_ticks,
                                  i + 1)
        raw == IF i < Len(samples)
               THEN IF samples[i + 1].pts90k > samples[i].pts90k
                    THEN samples[i + 1].pts90k - samples[i].pts90k
                    ELSE IF last_sample_duration # None
                         THEN last_sample_duration[1]
                         ELSE FallbackSampleTicks
               ELSE 0
    IN <<raw>> \o before

\* The duration of the last sample needs the durations pushed before it.
ComputeSampleDurations(samples, last_sample_duration, part_ticks) ==
  LET n == Len(samples)
      head == SampleDurations(samples, last_sample_duration, part_ticks, 1)
      pushed == [ i \in 1..n |-> Max2(head[i], 1) ]
      last == IF last_sample_duration # None THEN last_sample_duration[1]
              ELSE IF n > 1 THEN pushed[n - 1]
              ELSE part_ticks
      raw == [ i \in 1..n |-> IF i = n THEN last ELSE head[i] ]
  IN [ durations |-> [ i \in 1..n |-> Max2(raw[i], 1) ],
       total |-> SumSeq(raw) ]


Min2(a, b) == IF a <= b THEN a ELSE b

\* CmafSegmenter::new: the part duration in force.
ResolvePartDuration(target, part) ==
  LET resolved == IF part <= 0 THEN target ELSE part
      max_part == Max2(target, MinSegmentTicks)
  IN Min2(Max2(resolved, MinSegmentTicks), max_part)

SegmenterNew(cfg) ==
  [ target_duration |-> cfg.target,
    window |-> cfg.window,
    sequence |-> 0,
    segments |-> <<>>,
    current |-> None,
    sps |-> None,
    pps |-> None,
    last_init_sps |-> None,
    last_init_pps |-> None,
    part_duration |-> ResolvePartDuration(cfg.target, cfg.part),
    last_sample_duration |-> None,
    fragment_sequence |-> 1 ]

\* CmafStream::new and CmafStream::send_fragment.
StreamNew(capacity) ==
  [ init |-> None, next_seq |-> 1, backlog |-> <<>>,
    backlog_capacity |-> Max2(capacity, 1), last |-> None ]

\* A faulty variant of the operator below: the newest entries are dropped.
TrimFrontKeepsOldest(backlog, capacity) ==
  SubSeq(backlog, 1, Min2(Len(backlog), capacity))

\* The while loop of send_fragment: pop_front down to the capacity.
RECURSIVE TrimFront(_, _)
TrimFront(backlog, capacity) ==
  IF Len(backlog) > capacity THEN TrimFront(Tail(backlog), capacity)
  ELSE backlog

SendFragment(st, fragment) ==
  LET entry == [ seq |-> st.next_seq, bytes |-> fragment ]
  IN [ st EXCEPT !.next_seq = @ + 1,
                 !.backlog = TrimFront(Append(@, entry), st.backlog_capacity),
                 !.last = Some(entry) ]

\* A file of the directory: absent, or the parts appended so far and the
\* bytes a failed write_all left behind.
NoFile == [ exists |-> FALSE, parts |-> <<>>, torn |-> 0 ]
EmptyFile == [ exists |-> TRUE, parts |-> <<>>, torn |-> 0 ]

RECURSIVE PartsLen(_)
PartsLen(parts) ==
  IF parts = <<>> THEN 0 ELSE Head(parts).len + PartsLen(Tail(parts))

FileLen(file) == PartsLen(file.parts) + file.torn

DirEmpty == [ exists |-> FALSE, segs |-> <<>>, init |-> FALSE,
              playlist |-> None ]

\* The file of segment seq (seg{seq:06}.m4s); files are kept by seq + 1.
SegFile(d, seq) == IF seq + 1 <= Len(d.segs) THEN d.segs[seq + 1] ELSE NoFile

PutSegFile(d, seq, file) ==
  LET n == Max2(Len(d.segs), seq + 1)
  IN [ d EXCEPT !.segs = [ i \in 1..n |->
                            IF i = seq + 1 THEN file
                            ELSE IF i <= Len(d.segs) THEN d.segs[i]
                            ELSE NoFile ] ]

\* A faulty variant of the operator below: the counter is not advanced.
NextFragmentSequenceStuck(sequence) == sequence

\* The next value of fragment_sequence, the mfhd counter.
NextFragmentSequence(sequence) == sequence + 1

\* A faulty variant of the operator below: the styp box is not counted.
AdvanceBytesWrittenPayloadOnly(bytes_written, byte_length) ==
  bytes_written + byte_length - StypLen

\* bytes_written after a part of byte_length went to the file.
AdvanceBytesWritten(bytes_written, byte_length) ==
  bytes_written + byte_length

\* flush_part on the local segment buffer w.cur; fail makes write_all fail
\* after torn bytes of the part reached the file.
FlushPart(w, fail, torn) ==
  IF w.err \/ w.cur[1].part_samples = <<>> THEN w
  ELSE
    LET cur == w.cur[1]
        samples == cur.part_samples
        durs == ComputeSampleDurations(samples, w.s.last_sample_duration,
                                       w.s.part_duration)
        sequence == w.s.fragment_sequence
        byte_length == PartBytesLen(samples)
        fragment == [ mfhd |-> sequence, len |-> byte_length,
                      session |-> w.o.session ]
        s1 == [ w.s EXCEPT
                  !.last_sample_duration =
                     Some(durs.durations[Len(samples)]),
                  !.fragment_sequence = NextFragmentSequence(sequence) ]
        st1 == SendFragment(w.st, fragment)
        o1 == [ w.o EXCEPT
                  !.sent = Append(@, sequence),
                  !.first = IF @ = None
                            THEN Some([ mfhd |-> sequence,
                                        seq |-> w.st.next_seq ])
                            ELSE @,
                  !.emitted =
                     Some([ pts |-> [ i \in 1..Len(samples) |->
                                        samples[i].pts90k ],
                            durations |-> durs.durations,
                            known |-> w.s.last_sample_duration ]),
                  !.prevPart = w.o.lastPart,
                  !.lastPart = Some([ mfhd |-> sequence,
                                      seq |-> w.st.next_seq,
                                      session |-> w.o.session ]) ]
        file == SegFile(w.d, cur.seq)
        part == [ index |-> cur.part_index,
                  duration |-> Max2(durs.total, MinPartTicks),
                  byte_start |-> cur.part_start_byte,
                  byte_length |-> byte_length,
                  independent |-> cur.part_independent,
                  \* observers: the samples of the part
                  samples |-> Len(samples),
                  first_idr |-> samples[1].is_idr ]
        written == AdvanceBytesWritten(cur.bytes_written, byte_length)
    IN IF fail
       THEN [ w EXCEPT
                !.s = s1, !.st = st1, !.o = o1, !.err = TRUE,
                !.cur = Some([ cur EXCEPT !.part_samples = <<>> ]),
                !.d = PutSegFile(w.d, cur.seq,
                                 [ file EXCEPT !.torn = Min2(torn,
                                                             byte_length) ]) ]
       ELSE [ w EXCEPT
                !.s = s1, !.st = st1,
                !.o = [ o1 EXCEPT !.written = Append(@, sequence) ],
                !.d = PutSegFile(w.d, cur.seq,
                                 [ file EXCEPT !.parts =
                                     Append(@, fragment) ]),
                !.cur = Some([ cur EXCEPT
                                 !.part_samples = <<>>,
                                 !.bytes_written = written,
                                 !.parts = Append(@, part),
                                 !.part_index = @ + 1,
                                 !.part_start_byte = written,
                                 !.part_independent = FALSE ]) ]

\* render_playlist, as the media sequence and the lines that name a segment:
\* per listed segment its sequence, its EXT-X-PART count and whether its
\* EXTINF and file name lines follow.
RECURSIVE ListedSegments(_)
ListedSegments(segments) ==
  IF segments = <<>> THEN <<>>
  ELSE <<[ seq |-> Head(segments).seq, parts |-> Len(Head(segments).parts),
           complete |-> TRUE ]>> \o ListedSegments(Tail(segments))

RenderPlaylist(s, current) ==
  [ media_sequence |->
      IF s.segments # <<>> THEN Head(s.segments).seq
      ELSE IF current # None THEN current[1].seq
      ELSE 0,
    listed |->
      ListedSegments(s.segments) \o
        ( IF current # None /\ current[1].parts # <<>>
          THEN <<[ seq |-> current[1].seq, parts |-> Len(current[1].parts),
                   complete |-> FALSE ]>>
          ELSE <<>> ) ]

\* write_playlist: stream.m3u8.tmp is written and renamed over stream.m3u8.
WritePlaylist(w, current) ==
  IF w.err THEN w
  ELSE LET playlist == RenderPlaylist(w.s, current)
       IN [ w EXCEPT
              !.d.playlist = Some(playlist),
              !.o.plPrev = w.o.plLast,
              !.o.plLast = Some(playlist.media_sequence) ]

\* The sliding window: pop the oldest segments and unlink their files.
RECURSIVE EvictOld(_, _, _)
EvictOld(segments, window, d) ==
  IF Len(segments) > window
  THEN EvictOld(Tail(segments), window, PutSegFile(d, Head(segments).seq,
                                                   NoFile))
  ELSE [ segments |-> segments, d |-> d ]

\* The segments named by a playlist for which get_segment finds no file in
\* the directory.
MissingSegments(playlist, d) ==
  IF playlist = None THEN {}
  ELSE { playlist[1].listed[i].seq : i \in
           { j \in 1..Len(playlist[1].listed) :
               ~SegFile(d, playlist[1].listed[j].seq).exists } }

\* finalize_segment_buffer on the local segment buffer w.cur.  The observer
\* keeps in gap what a reader finds between the unlinking of the evicted
\* files and the rename of the new playlist: the segments that stream.m3u8
\* names and that are gone.
FinalizeSegmentBuffer(w, fail, torn) ==
  LET Finish(w1) ==
        IF w1.err THEN w1
        ELSE
          LET cur == w1.cur[1]
              duration == IF cur.last_pts > cur.start_pts
                          THEN cur.last_pts - cur.start_pts
                          ELSE MinSegmentTicks
              info == [ seq |-> cur.seq, duration |-> duration,
                        parts |-> cur.parts ]
              Evicted(ev) ==
                WritePlaylist([ w1 EXCEPT !.s.segments = ev.segments,
                                          !.d = ev.d, !.cur = None,
                                          !.o.gap =
                                             MissingSegments(w1.d.playlist,
                                                             ev.d),
                                          !.o.finalized = Some(cur.seq) ],
                              None)
          IN Evicted(EvictOld(Append(w1.s.segments, info), w1.s.window,
                              w1.d))
  IN Finish(FlushPart(w, fail, torn))

\* start_segment: the next sequence number and a created, empty file.
StartSegment(w, pts90k) ==
  IF w.err THEN w
  ELSE LET seq == w.s.sequence
       IN [ w EXCEPT
              !.s.sequence = seq + 1,
              !.d = PutSegFile(w.d, seq, EmptyFile),
              !.s.current = Some(
                 [ seq |-> seq, start_pts |-> pts90k, last_pts |-> pts90k,
                   frames |-> 0, bytes_written |-> 0, parts |-> <<>>,
                   part_index |-> 0, part_start_pts |-> pts90k,
                   part_start_byte |-> 0, part_samples |-> <<>>,
                   part_independent |-> TRUE ]) ]

\* self.current.take() into the local variable.
TakeCurrent(w) ==
  IF w.err THEN w ELSE [ w EXCEPT !.cur = w.s.current, !.s.current = None ]

\* write_init_if_needed: init.mp4 is rewritten when SPS or PPS changed.
WriteInitIfNeeded(w) ==
  IF w.s.sps = None \/ w.s.pps = None THEN w
  ELSE IF w.s.last_init_sps = w.s.sps /\ w.s.last_init_pps = w.s.pps THEN w
  ELSE [ w EXCEPT
           !.d.init = TRUE,
           !.st.init = Some([ sps |-> w.s.sps[1], pps |-> w.s.pps[1] ]),
           !.s.last_init_sps = w.s.sps,
           !.s.last_init_pps = w.s.pps ]


\* A faulty variant of the operator below: units before the first IDR are kept.
DiscardNothing(current, access_unit) == FALSE

\* The test at the head of push_access_unit: no segment is open and the unit
\* is not an IDR.
DiscardBeforeIdr(current, access_unit) ==
  current = None /\ ~access_unit.is_idr

\* A faulty variant of the operator below: every part is independent.
PartIndependentAlways(access_unit) == TRUE

\* part_independent of a part that begins with access_unit.
PartIndependent(access_unit) == access_unit.is_idr

\* A faulty variant of the operator below: any unit can end the segment.
AtSegmentBoundaryAnyUnit(current, access_unit, pts90k, target_duration) ==
  SatSub(pts90k, current.start_pts) >= target_duration

\* The test of push_access_unit that ends the segment in progress.
AtSegmentBoundary(current, access_unit, pts90k, target_duration) ==
  /\ SatSub(pts90k, current.start_pts) >= target_duration
  /\ access_unit.is_idr

\* The part of push_access_unit after the segment boundary: part bookkeeping,
\* the part flush with its playlist write, and the push of the sample.
PushSample(w, access_unit, pts90k, fail, torn) ==
  IF w.err THEN [ w EXCEPT !.cur = None ]
  ELSE
    LET c0 == w.cur[1]
        Begun(c1) ==
          LET Flushed(f) ==
                IF f.err THEN f
                ELSE [ f EXCEPT !.cur = Some(
                         [ f.cur[1] EXCEPT
                             !.part_start_pts = pts90k,
                             !.part_start_byte = f.cur[1].bytes_written,
                             !.part_independent =
                                PartIndependent(access_unit) ]) ]
              Listed(g) == WritePlaylist(g, g.cur)
              Pushed(w2) ==
                IF w2.err THEN [ w2 EXCEPT !.cur = None ]
                ELSE
                  LET c2 == w2.cur[1]
                      sample == [ pts90k |-> pts90k,
                                  is_idr |-> access_unit.is_idr,
                                  nals |-> access_unit.nals ]
                  IN [ w2 EXCEPT
                         !.s.current = Some(
                            [ c2 EXCEPT !.last_pts = pts90k,
                                        !.frames = @ + 1,
                                        !.part_samples = Append(@, sample) ]),
                         !.cur = None,
                         !.o.nonIdrFirst =
                            IF c2.frames = 0 /\ ~access_unit.is_idr
                            THEN @ \cup {c2.seq} ELSE @,
                         !.o.preIdrKept =
                            IF ~w.o.seenIdr /\ ~access_unit.is_idr
                            THEN @ + 1 ELSE @ ]
          IN IF Len(c1.part_samples) > 0
                /\ SatSub(pts90k, c1.part_start_pts) >= w.s.part_duration
             THEN Pushed(Listed(Flushed(
                    FlushPart([ w EXCEPT !.cur = Some(c1) ], fail, torn))))
             ELSE Pushed([ w EXCEPT !.cur = Some(c1) ])
    IN Begun(IF c0.part_samples = <<>>
             THEN [ c0 EXCEPT !.part_start_pts = pts90k,
                              !.part_start_byte = c0.bytes_written,
                              !.part_independent =
                                 PartIndependent(access_unit) ]
             ELSE c0)

\* CmafSegmenter::push_access_unit.
PushAccessUnit(w0, access_unit, pts90k, fail, torn) ==
  LET Taken(w3) ==
        IF AtSegmentBoundary(w3.cur[1], access_unit, pts90k,
                             w3.s.target_duration)
        THEN PushSample(
               TakeCurrent(
                 StartSegment(
                   FinalizeSegmentBuffer(FlushPart(w3, fail, torn), FALSE, 0),
                   pts90k)),
               access_unit, pts90k, fail, torn)
        ELSE PushSample(w3, access_unit, pts90k, fail, torn)
      Checked(w1) ==
        IF DiscardBeforeIdr(w1.s.current, access_unit)
        THEN [ w1 EXCEPT !.o.dropped = @ + 1 ]
        ELSE IF w1.s.current = None
        THEN Taken(TakeCurrent(StartSegment(w1, pts90k)))
        ELSE Taken(TakeCurrent(w1))
  IN Checked(WriteInitIfNeeded(w0))

\* CmafSegmenter::finalize_segment.
FinalizeSegment(w, fail, torn) ==
  IF w.s.current = None THEN w
  ELSE [ FinalizeSegmentBuffer(TakeCurrent(w), fail, torn)
           EXCEPT !.cur = None ]

ObsNew ==
  [ session |-> 0, clock |-> None, units |-> 0, plPrev |-> None,
    plLast |-> None, prevPart |-> None, lastPart |-> None, sent |-> <<>>,
    written |-> <<>>, dropped |-> 0, nonIdrFirst |-> {}, preIdrKept |-> 0,
    seenIdr |-> FALSE, first |-> None, before |-> 0, finalized |-> None,
    emitted |-> None, gap |-> {} ]

CmafConfigs ==
  [ window : 0..MaxWindow, target : {TargetTicks}, part : {PartTicks} ]

CmafInit ==
  /\ cmafCfg \in CmafConfigs
  /\ seg = None
  /\ dir = DirEmpty
  /\ stream = StreamNew(BacklogCapacity)
  /\ cmafObs = ObsNew

CmafIdle ==
  /\ cmafCfg = [ window |-> 1, target |-> TargetTicks, part |-> PartTicks ]
  /\ seg = None
  /\ dir = DirEmpty
  /\ stream = StreamNew(BacklogCapacity)
  /\ cmafObs = ObsNew

World == [ s |-> seg[1], cur |-> None, d |-> dir, st |-> stream,
           o |-> cmafObs, err |-> FALSE ]

\* A faulty variant of the operator below: the files are left in place.
CleanOutputDirKeeps(d) == [ d EXCEPT !.exists = TRUE ]

\* clean_output_dir: every file of the directory is removed; a missing
\* directory is created.
CleanOutputDir(d) == [ DirEmpty EXCEPT !.exists = TRUE ]

\* One turn of the loop of run_rtsp_hls up to the session: clean_output_dir
\* removes the files, a fresh segmenter is created on the runtime's stream.
\* The observer counts in before the fragments the stream has broadcast in
\* the sessions so far.
CmafSessionStart ==
  /\ seg = None
  /\ cmafObs.session < MaxSessions
  /\ seg' = Some(SegmenterNew(cmafCfg))
  /\ dir' = CleanOutputDir(dir)
  /\ cmafObs' = [ cmafObs EXCEPT
                    !.session = @ + 1, !.clock = None, !.plPrev = None,
                    !.plLast = None, !.sent = <<>>, !.written = <<>>,
                    !.dropped = 0, !.nonIdrFirst = {}, !.preIdrKept = 0,
                    !.seenIdr = FALSE, !.first = None,
                    !.before = @ + Len(cmafObs.sent), !.finalized = None,
                    !.emitted = None, !.gap = {} ]
  /\ UNCHANGED <<stream, cmafCfg>>

\* The supervisor replaces the runtime between two sessions of the runner
\* (update_printer: PrinterRuntime::spawn, then shutdown of the old one):
\* the new runtime has its own CmafStream, the directory is the same.
CmafRespawn ==
  /\ seg = None
  /\ stream.next_seq > 1
  /\ stream' = StreamNew(BacklogCapacity)
  /\ cmafObs' = [ cmafObs EXCEPT
                    !.prevPart = None, !.lastPart = None, !.sent = <<>>,
                    !.written = <<>>, !.first = None, !.before = 0 ]
  /\ UNCHANGED <<seg, dir, cmafCfg>>

\* set_parameter_sets, from the SDP or from take_parameter_sets.
CmafSetParameterSets ==
  /\ seg # None
  /\ \E sps \in {1, 2} :
       /\ seg[1].sps # Some(sps)
       /\ seg' = Some([ seg[1] EXCEPT !.sps = Some(sps), !.pps = Some(1) ])
  /\ UNCHANGED <<dir, stream, cmafCfg, cmafObs>>

\* One access unit of the session goes through pts90k and push_access_unit;
\* an error ends the session and the segmenter is dropped.
CmafPush ==
  /\ seg # None
  /\ cmafObs.units < MaxUnits
  /\ \E access_unit \in AccessUnits, step \in PtsSteps, fail \in BOOLEAN :
       LET pts90k == IF cmafObs.clock = None THEN 0
                     ELSE cmafObs.clock[1] + step
       IN \E w \in {PushAccessUnit(World, access_unit, pts90k, fail, 1)} :
            /\ seg' = IF w.err THEN None ELSE Some(w.s)
            /\ dir' = w.d
            /\ stream' = w.st
            /\ cmafObs' = [ w.o EXCEPT
                              !.clock = Some(pts90k), !.units = @ + 1,
                              !.seenIdr = @ \/ access_unit.is_idr ]
  /\ UNCHANGED cmafCfg

\* The interleaved queue closed: finalize_segment, then the segmenter is
\* dropped and the runner sleeps before its next turn.
CmafSessionEnd ==
  /\ seg # None
  /\ \E fail \in BOOLEAN :
       \E w \in {FinalizeSegment(World, fail, 1)} :
         /\ dir' = w.d
         /\ stream' = w.st
         /\ cmafObs' = w.o
  /\ seg' = None
  /\ UNCHANGED cmafCfg


(***************************************************************************)
(* The per-device RTSP runner and its RtspConnection (rtsp/pipeline.rs,    *)
(* rtsp/client.rs).  The server and the network are the environment.       *)
(***************************************************************************)
VARIABLES
  runner,     \* run_rtsp_hls / run_session / RtspClient::start: its position
  conn,       \* the RtspConnection of the current attempt and its two tasks
  sock,       \* the TCP/TLS stream and the server behind it
  queue       \* the interleaved mpsc channel of the current attempt

connVars == <<runner, conn, sock, queue>>

\* mpsc::channel(64) of interleaved packets.
INTERLEAVED_CAPACITY == 64

\* Bounds: connection attempts of the runner, and the interleaved frames and
\* the responses the server sends on one connection.
MaxAttempts == 2
MaxFrames == 2
MaxResponses == 5

RtspStatuses == {200, 401, 454}

\* wire, log and result observe send_request_with_retry: the requests
\* written and the responses received for the logical request in progress,
\* and what the last logical request returned to its caller.  sent and
\* answers observe the last call of start that got a connection (conn is
\* that connection): the methods it has written,
\* in order (a retry of a method is not listed again), and the responses
\* send_request_with_retry has returned to it.  orphan observes the
\* connection before conn: its keep-alive task was left waiting for a
\* response that cannot come.
RunnerNew ==
  [ pc |-> "idle", attempt |-> 0, method |-> "NONE", wait |-> 0,
    attempts |-> 0, wire |-> 0, log |-> <<>>, result |-> None,
    sent |-> <<>>, answers |-> <<>>, orphan |-> FALSE ]

\* RtspConnection::connect: cseq starts at 1, nothing is pending, the reader
\* task is spawned.  delivered holds the responses sent into a oneshot;
\* returned observes the calls of send_request that have returned.
ConnNew ==
  [ cseq |-> 1, pending |-> {}, delivered |-> {}, reader |-> "running",
    keepalive |-> "none", kaWait |-> 0, kaAttempts |-> 0, returned |-> {} ]

ConnNone == [ ConnNew EXCEPT !.reader = "none" ]

SockNew ==
  [ requests |-> {}, toClient |-> <<>>, peerClosed |-> FALSE,
    playing |-> FALSE, frames |-> 0, responses |-> 0 ]

QueueNew == [ items |-> 0, rxAlive |-> TRUE, txAlive |-> TRUE ]

ConnInit ==
  /\ runner = RunnerNew
  /\ conn = ConnNone
  /\ sock = SockNew
  /\ queue = QueueNew

ConnIdle == ConnInit

\* What rx.await of send_request yields for cseq: the response the reader
\* sent, an error once the sender is gone without a response, or nothing yet.
AwaitOutcome(c, cseq) ==
  IF \E d \in c.delivered : d.cseq = cseq THEN "response"
  ELSE IF cseq \notin c.pending THEN "closed"
  ELSE "waiting"

DeliveredFor(c, cseq) == CHOOSE d \in c.delivered : d.cseq = cseq

\* send_request up to the await: the CSeq is taken, the sender registered and
\* the request written; the write fails only on a stream the peer closed.
SendRequest(c, so, method, written) ==
  [ conn |-> [ c EXCEPT !.cseq = @ + 1,
                        !.pending = @ \cup {c.cseq} ],
    sock |-> IF written
             THEN [ so EXCEPT !.requests =
                      @ \cup {[ cseq |-> c.cseq, method |-> method ]} ]
             ELSE so,
    cseq |-> c.cseq ]

\* send_request returns for cseq, with a response or with an error.
Returned(c, cseq, how) ==
  [ c EXCEPT !.returned = @ \cup {[ cseq |-> cseq, how |-> how ]} ]

\* The RtspSession (or the connection held by start) is dropped: the
\* receiver of the interleaved queue goes away.
DropSession(q) == [ q EXCEPT !.rxAlive = FALSE, !.items = 0 ]

\* The method written is listed, unless it is the retry of the last one.
Listed(sent, method) ==
  IF sent # <<>> /\ sent[Len(sent)] = method THEN sent
  ELSE Append(sent, method)

\* A faulty variant of the operator below: SETUP is left out.
NextMethodSkipping(method) ==
  IF method = "DESCRIBE" THEN "PLAY" ELSE "NONE"

NextMethod(method) ==
  IF method = "DESCRIBE" THEN "SETUP" ELSE IF method = "SETUP" THEN "PLAY"
  ELSE "NONE"

\* The keep-alive task of connection c waits at rx.await of send_request
\* for its OPTIONS while the reader task has returned: the sender stays in
\* the pending map, which the task itself keeps alive, and nothing sends
\* into it or drops it.
KeepaliveWedged(c) ==
  /\ c.keepalive = "await"
  /\ c.reader = "done"
  /\ AwaitOutcome(c, c.kaWait) = "waiting"

\* The loop of run_rtsp_hls reaches run_session: RtspConnection::connect
\* succeeds and spawns the reader, or fails and the runner goes to sleep.
\* The tasks of the connection before are not touched.
RunnerConnect ==
  /\ runner.pc = "idle"
  /\ runner.attempt < MaxAttempts
  /\ \E ok \in BOOLEAN :
       IF ok
       THEN /\ runner' = [ runner EXCEPT !.pc = "send", !.attempt = @ + 1,
                                         !.method = "DESCRIBE",
                                         !.attempts = 0, !.wire = 0,
                                         !.log = <<>>, !.sent = <<>>,
                                         !.answers = <<>>,
                                         !.orphan = KeepaliveWedged(conn) ]
            /\ conn' = ConnNew
            /\ sock' = SockNew
            /\ queue' = QueueNew
       ELSE /\ runner' = [ runner EXCEPT !.pc = "sleep", !.attempt = @ + 1 ]
            /\ UNCHANGED <<conn, sock, queue>>

\* send_request of DESCRIBE, SETUP or PLAY, up to rx.await.
RunnerSend ==
  /\ runner.pc = "send"
  /\ \E written \in BOOLEAN :
       /\ written \/ sock.peerClosed
       /\ LET r == SendRequest(conn, sock, runner.method, written)
          IN /\ conn' = IF written THEN r.conn
                        ELSE Returned(r.conn, r.cseq, "write error")
             /\ sock' = r.sock
             /\ IF written
                THEN /\ runner' = [ runner EXCEPT !.pc = "await",
                                                  !.wait = r.cseq,
                                                  !.wire = @ + 1,
                                                  !.sent =
                                                     Listed(@, runner.method) ]
                     /\ queue' = queue
                ELSE /\ runner' = [ runner EXCEPT !.pc = "sleep",
                                                  !.wire = 0, !.log = <<>> ]
                     /\ queue' = DropSession(queue)

\* A faulty variant of the operator below: the attempts are not counted.
RetriesEvery401(d, attempts) == d.status = 401 /\ d.challenge

\* The loop of send_request_with_retry: response d is retried when it is a
\* 401 whose challenge updated the authenticator and attempts allows.
Retries(d, attempts) ==
  d.status = 401 /\ d.challenge /\ attempts + 1 < 2

\* rx.await completes: send_request_with_retry and start go on.
RunnerAwait ==
  /\ runner.pc = "await"
  /\ AwaitOutcome(conn, runner.wait) # "waiting"
  /\ IF AwaitOutcome(conn, runner.wait) = "closed"
     THEN /\ runner' = [ runner EXCEPT !.pc = "sleep", !.wire = 0,
                                       !.log = <<>> ]
          /\ queue' = DropSession(queue)
          /\ conn' = Returned(conn, runner.wait, "closed")
     ELSE LET d == DeliveredFor(conn, runner.wait)
              retry == Retries(d, runner.attempts)
              done == d.status = 200
              seen == Append(runner.log, [ status |-> d.status,
                                           challenge |-> d.challenge ])
              returned == Some([ log |-> seen, wire |-> runner.wire ])
              answered == Append(runner.answers,
                                 [ method |-> runner.method,
                                   status |-> d.status ])
          IN /\ conn' = [ Returned(conn, runner.wait, "response") EXCEPT
                            !.delivered = @ \ {d},
                            !.keepalive =
                               IF done /\ runner.method = "PLAY"
                               THEN "sleep" ELSE @ ]
             /\ IF retry
                THEN /\ runner' = [ runner EXCEPT !.pc = "send",
                                                  !.attempts = @ + 1,
                                                  !.log = seen ]
                     /\ queue' = queue
                ELSE IF done
                THEN /\ runner' = [ runner EXCEPT
                                      !.pc = IF runner.method = "PLAY"
                                             THEN "streaming" ELSE "send",
                                      !.method = NextMethod(runner.method),
                                      !.attempts = 0, !.wire = 0,
                                      !.log = <<>>, !.result = returned,
                                      !.answers = answered ]
                     /\ queue' = queue
                ELSE /\ runner' = [ runner EXCEPT
                                      !.pc = "sleep", !.wire = 0,
                                      !.log = <<>>, !.result = returned,
                                      !.answers = answered ]
                     /\ queue' = DropSession(queue)
  /\ UNCHANGED sock

\* session.interleaved_rx.recv() yields a packet.
RunnerRecv ==
  /\ runner.pc = "streaming"
  /\ queue.items > 0
  /\ queue' = [ queue EXCEPT !.items = @ - 1 ]
  /\ UNCHANGED <<runner, conn, sock>>

\* recv() yields None: every sender is gone; finalize_segment, then sleep.
RunnerStreamEnd ==
  /\ runner.pc = "streaming"
  /\ queue.items = 0
  /\ ~queue.txAlive
  /\ runner' = [ runner EXCEPT !.pc = "sleep" ]
  /\ queue' = DropSession(queue)
  /\ UNCHANGED <<conn, sock>>

\* sleep(Duration::from_secs(2)) is over: the next turn of the loop.
RunnerBackoff ==
  /\ runner.pc = "sleep"
  /\ runner' = [ runner EXCEPT !.pc = "idle" ]
  /\ UNCHANGED <<conn, sock, queue>>


\* reader_loop takes the next event the parser produced: a response goes to
\* its pending sender, an interleaved frame into the queue (waiting while the
\* queue is full, returning when the receiver is gone).
ReaderEvent ==
  /\ conn.reader = "running"
  /\ sock.toClient # <<>>
  /\ LET event == Head(sock.toClient)
     IN IF event.kind = "response"
        THEN /\ conn' = IF event.cseq \in conn.pending
                        THEN [ conn EXCEPT
                                 !.pending = @ \ {event.cseq},
                                 !.delivered = @ \cup
                                    {[ cseq |-> event.cseq,
                                       status |-> event.status,
                                       challenge |-> event.challenge ]} ]
                        ELSE conn
             /\ queue' = queue
        ELSE /\ queue.rxAlive => queue.items < INTERLEAVED_CAPACITY
             /\ IF queue.rxAlive
                THEN /\ queue' = [ queue EXCEPT !.items = @ + 1 ]
                     /\ conn' = conn
                ELSE /\ queue' = [ queue EXCEPT !.txAlive = FALSE ]
                     /\ conn' = [ conn EXCEPT !.reader = "done" ]
  /\ sock' = [ sock EXCEPT !.toClient = Tail(@) ]
  /\ UNCHANGED runner

\* read returns 0 or an error: reader_loop returns, its interleaved_tx and
\* its clone of the Arc are dropped.  The pending map belongs to the
\* RtspConnection, which start() and the keep-alive task still hold, so the
\* registered senders stay where they are.
ReaderEof ==
  /\ conn.reader = "running"
  /\ sock.toClient = <<>>
  /\ sock.peerClosed
  /\ conn' = [ conn EXCEPT !.reader = "done" ]
  /\ queue' = [ queue EXCEPT !.txAlive = FALSE ]
  /\ UNCHANGED <<runner, sock>>

\* The keep-alive task wakes from sleep(interval), or retries at once after
\* a 401 with a challenge, and sends OPTIONS.
KeepaliveSend ==
  /\ conn.keepalive \in {"sleep", "retry"}
  /\ \E written \in BOOLEAN :
       /\ written \/ sock.peerClosed
       /\ LET r == SendRequest(conn, sock, "OPTIONS", written)
          IN /\ conn' = [ ( IF written THEN r.conn
                              ELSE Returned(r.conn, r.cseq, "write error") )
                            EXCEPT
                            !.keepalive = IF written THEN "await" ELSE "done",
                            !.kaWait = r.cseq ]
             /\ sock' = r.sock
  /\ UNCHANGED <<runner, queue>>

\* The keep-alive's rx.await completes: send_request_with_retry retries after
\* a 401 with a challenge, any other response is Ok (the status is not
\* looked at) and the loop sleeps again; an error breaks the loop.
KeepaliveAwait ==
  /\ conn.keepalive = "await"
  /\ AwaitOutcome(conn, conn.kaWait) # "waiting"
  /\ IF AwaitOutcome(conn, conn.kaWait) = "closed"
     THEN conn' = [ Returned(conn, conn.kaWait, "closed") EXCEPT
                      !.keepalive = "done" ]
     ELSE LET d == DeliveredFor(conn, conn.kaWait)
              retry == d.status = 401 /\ d.challenge
                         /\ conn.kaAttempts + 1 < 2
          IN conn' = [ Returned(conn, conn.kaWait, "response") EXCEPT
                         !.delivered = @ \ {d},
                         !.keepalive = IF retry THEN "retry" ELSE "sleep",
                         !.kaAttempts = IF retry THEN @ + 1 ELSE 0 ]
  /\ UNCHANGED <<runner, sock, queue>>

\* The server answers a request it has received.
ServerRespond ==
  /\ ~sock.peerClosed
  /\ sock.responses < MaxResponses
  /\ \E request \in sock.requests, status \in RtspStatuses,
        challenge \in BOOLEAN :
       /\ challenge => status = 401
       /\ sock' = [ sock EXCEPT
                      !.requests = @ \ {request},
                      !.responses = @ + 1,
                      !.toClient = Append(@,
                         [ kind |-> "response", cseq |-> request.cseq,
                           status |-> status, challenge |-> challenge ]),
                      !.playing = @ \/ (request.method = "PLAY"
                                          /\ status = 200) ]
  /\ UNCHANGED <<runner, conn, queue>>

\* The server sends an interleaved RTP frame after PLAY.
ServerFrame ==
  /\ ~sock.peerClosed
  /\ sock.playing
  /\ sock.frames < MaxFrames
  /\ sock' = [ sock EXCEPT
                 !.frames = @ + 1,
                 !.toClient = Append(@, [ kind |-> "interleaved", cseq |-> 0,
                                          status |-> 0,
                                          challenge |-> FALSE ]) ]
  /\ UNCHANGED <<runner, conn, queue>>

\* The server closes the connection, or the network drops it.
ServerClose ==
  /\ ~sock.peerClosed
  /\ conn.reader # "none"
  /\ sock' = [ sock EXCEPT !.peerClosed = TRUE ]
  /\ UNCHANGED <<runner, conn, queue>>

\* PrinterRuntime::shutdown aborts the task running run_rtsp_hls: its future
\* is dropped and with it the RtspSession or the connection start() holds.
\* The reader and the keep-alive were spawned on their own and are not
\* aborted.
RuntimeShutdown ==
  /\ runner.pc # "aborted"
  /\ runner' = [ runner EXCEPT !.pc = "aborted" ]
  /\ queue' = DropSession(queue)
  /\ UNCHANGED <<conn, sock>>

RunnerStep ==
  \/ RunnerConnect \/ RunnerSend \/ RunnerAwait \/ RunnerRecv
  \/ RunnerStreamEnd \/ RunnerBackoff

ReaderStep == ReaderEvent \/ ReaderEof

KeepaliveStep == KeepaliveSend \/ KeepaliveAwait

ServerStep == ServerRespond \/ ServerFrame \/ ServerClose


(***************************************************************************)
(* The supervisor: the printers map of AppState, the HTTP handlers that    *)
(* create, update and delete a device, and the tasks of its runtimes       *)
(* (http.rs, printers.rs, rtsp/pipeline.rs).  One device id is followed;   *)
(* ids are never reused (AUTOINCREMENT).                                   *)
(***************************************************************************)
VARIABLES
  db,         \* the device's row: "none", "present" or "deleted"
  printers,   \* AppState.printers[id]: a runtime number, 0 when absent
  runtimes,   \* per PrinterRuntime ever spawned: its two aborted-or-not tasks
  handlers,   \* the HTTP handlers in flight and their position
  supDir      \* {cmaf_root}/{id}: whether it exists, and who writes to it

supVars == <<db, printers, runtimes, handlers, supDir>>

\* Bounds: runtimes ever spawned for the device, handlers in flight.
MaxRuntimes == 3
MaxHandlers == 2

RuntimeIds == 1..MaxRuntimes

RuntimeNone == [ mqtt |-> "none", rtsp |-> "none" ]

SupInit ==
  /\ db = "none"
  /\ printers = 0
  /\ runtimes = [ r \in RuntimeIds |-> RuntimeNone ]
  /\ handlers = {}
  /\ supDir = [ exists |-> FALSE, writers |-> {} ]

SupIdle == SupInit

Spawned == { r \in RuntimeIds : runtimes[r].mqtt # "none" }

\* PrinterRuntime::spawn: both tasks are spawned and start running.
SpawnRuntime(rts, r) ==
  [ rts EXCEPT ![r] = [ mqtt |-> "running", rtsp |-> "resolve" ] ]

\* PrinterRuntime::shutdown: both abort handles are used.
ShutdownRuntime(rts, r) ==
  [ rts EXCEPT ![r] = [ mqtt |-> "aborted", rtsp |-> "aborted" ] ]

\* A request arrives; db::create_printer, db::update_printer or
\* db::delete_printer has run when the handler takes its next step.
HandlerStart ==
  /\ \E id \in 1..MaxHandlers, kind \in {"create", "update", "delete"} :
       /\ \A h \in handlers : h.id # id
       /\ kind = "create" => db = "none"
       /\ kind # "delete" =>
            Cardinality(Spawned)
              + Cardinality({ h \in handlers : h.pc = "spawn" }) < MaxRuntimes
       /\ db' = IF kind = "create" THEN "present"
                ELSE IF kind = "delete" /\ db = "present" THEN "deleted"
                ELSE db
       /\ handlers' = handlers \cup
            {[ id |-> id, kind |-> kind, rt |-> 0,
               pc |-> IF db = "present" \/ kind = "create"
                      THEN (IF kind = "delete" THEN "remove" ELSE "spawn")
                      ELSE "respond" ]}
  /\ UNCHANGED <<printers, runtimes, supDir>>

\* create_printer and update_printer: PrinterRuntime::spawn, before the
\* write lock of the map is asked for.
HandlerSpawn ==
  \E h \in handlers :
    /\ h.pc = "spawn"
    /\ LET r == Cardinality(Spawned) + 1
       IN /\ runtimes' = SpawnRuntime(runtimes, r)
          /\ handlers' = (handlers \ {h}) \cup
                            {[ h EXCEPT !.pc = "insert", !.rt = r ]}
    /\ UNCHANGED <<db, printers, supDir>>

\* Under the write lock: update_printer removes and shuts down the runtime
\* in the map, then both handlers insert the one they spawned.
HandlerInsert ==
  \E h \in handlers :
    /\ h.pc = "insert"
    /\ runtimes' = IF h.kind = "update" /\ printers # 0
                   THEN ShutdownRuntime(runtimes, printers)
                   ELSE runtimes
    /\ supDir' = IF h.kind = "update" /\ printers # 0
                 THEN [ supDir EXCEPT !.writers = @ \ {printers} ]
                 ELSE supDir
    /\ printers' = h.rt
    /\ handlers' = (handlers \ {h}) \cup {[ h EXCEPT !.pc = "respond" ]}
    /\ db' = db

\* delete_printer: the runtime is taken out of the map under the write lock
\* and shut down.
HandlerRemove ==
  \E h \in handlers :
    /\ h.pc = "remove"
    /\ printers' = 0
    /\ runtimes' = IF printers # 0 THEN ShutdownRuntime(runtimes, printers)
                   ELSE runtimes
    /\ supDir' = [ supDir EXCEPT !.writers = @ \ {printers} ]
    /\ handlers' = (handlers \ {h}) \cup
         {[ h EXCEPT !.rt = printers,
                     !.pc = IF printers # 0 THEN "rmdir" ELSE "respond" ]}
    /\ db' = db

\* delete_printer: remove_dir_all of the runtime's output directory.
HandlerRemoveDir ==
  \E h \in handlers :
    /\ h.pc = "rmdir"
    /\ supDir' = [ supDir EXCEPT !.exists = FALSE ]
    /\ handlers' = (handlers \ {h}) \cup {[ h EXCEPT !.pc = "respond" ]}
    /\ UNCHANGED <<db, printers, runtimes>>

\* The handler returns its response.
HandlerRespond ==
  \E h \in handlers :
    /\ h.pc = "respond"
    /\ handlers' = handlers \ {h}
    /\ UNCHANGED <<db, printers, runtimes, supDir>>


\* The turn of run_rtsp_hls's loop begins: resolve_rtsp_url yields a URL, or
\* none yet and the task sleeps 2 s.
TaskResolve ==
  \E r \in RuntimeIds, url \in BOOLEAN :
    /\ runtimes[r].rtsp = "resolve"
    /\ runtimes' = [ runtimes EXCEPT
                       ![r].rtsp = IF url THEN "clean" ELSE "sleep" ]
    /\ UNCHANGED <<db, printers, handlers, supDir>>

\* clean_output_dir: the directory is created when missing, its files are
\* removed otherwise.
TaskClean ==
  \E r \in RuntimeIds :
    /\ runtimes[r].rtsp = "clean"
    /\ runtimes' = [ runtimes EXCEPT ![r].rtsp = "new" ]
    /\ supDir' = [ exists |-> TRUE, writers |-> supDir.writers \cup {r} ]
    /\ UNCHANGED <<db, printers, handlers>>

\* CmafSegmenter::new: create_dir_all of the output directory.
TaskSegmenterNew ==
  \E r \in RuntimeIds :
    /\ runtimes[r].rtsp = "new"
    /\ runtimes' = [ runtimes EXCEPT ![r].rtsp = "session" ]
    /\ supDir' = [ exists |-> TRUE, writers |-> supDir.writers \cup {r} ]
    /\ UNCHANGED <<db, printers, handlers>>

\* run_session writes a file of the directory (init.mp4, a segment, a part,
\* the playlist); the write fails when the directory is gone and the session
\* ends with the error.
TaskWrite ==
  \E r \in RuntimeIds :
    /\ runtimes[r].rtsp = "session"
    /\ IF supDir.exists
       THEN /\ supDir' = [ supDir EXCEPT !.writers = @ \cup {r} ]
            /\ runtimes' = runtimes
       ELSE /\ supDir' = supDir
            /\ runtimes' = [ runtimes EXCEPT ![r].rtsp = "sleep" ]
    /\ UNCHANGED <<db, printers, handlers>>

\* run_session returns: the connection failed or the stream ended.
TaskSessionEnd ==
  \E r \in RuntimeIds :
    /\ runtimes[r].rtsp = "session"
    /\ runtimes' = [ runtimes EXCEPT ![r].rtsp = "sleep" ]
    /\ UNCHANGED <<db, printers, handlers, supDir>>

\* sleep(Duration::from_secs(2)) is over.
TaskBackoff ==
  \E r \in RuntimeIds :
    /\ runtimes[r].rtsp = "sleep"
    /\ runtimes' = [ runtimes EXCEPT ![r].rtsp = "resolve" ]
    /\ UNCHANGED <<db, printers, handlers, supDir>>


(***************************************************************************)
(* The blocking playlist reload of the HTTP layer (http.rs) against the    *)
(* playlist file the segmenter writes (rtsp/cmaf.rs).  A playlist file is  *)
(* its list of lines; times are in milliseconds.                           *)
(***************************************************************************)
VARIABLES
  hlsWriter,  \* the segmenter as far as the playlist shows it
  plFile,     \* Option: stream.m3u8, its lines and what they were rendered from
  reload,     \* the get_playlist handler of one request
  clock       \* Instant::now() of the handler, from the arrival of the request

reloadVars == <<hlsWriter, plFile, reload, clock>>

\* Duration::from_secs(5) and Duration::from_millis(200) of get_playlist.
ReloadDeadlineMs == 5000
ReloadPollMs == 200

\* Bounds: the _HLS_msn and _HLS_part values of a request, and the playlist
\* writes and directory purges of the segmenter while it is followed.
MaxMsn == 2
MaxPart == 2
MaxWrites == 5
MaxPurges == 1

\* The lines of a playlist as parse_ll_playlist tells them apart.
TagLine == [ kind |-> "tag", value |-> 0 ]
PartLine == [ kind |-> "part", value |-> 0 ]
UriLine == [ kind |-> "uri", value |-> 0 ]
MediaSequenceLine(n) == [ kind |-> "media-sequence", value |-> n ]

RECURSIVE SegmentLines(_)
SegmentLines(listed) ==
  IF listed = <<>> THEN <<>>
  ELSE [ i \in 1..Head(listed).parts |-> PartLine ]
       \o ( IF Head(listed).complete THEN <<TagLine, UriLine>> ELSE <<>> )
       \o SegmentLines(Tail(listed))

\* The text of render_playlist, line by line: seven header tags, the media
\* sequence, then per segment its EXT-X-PART lines and, when it is
\* complete, its EXTINF and its file name.
PlaylistLines(playlist) ==
  [ i \in 1..7 |-> TagLine ]
  \o <<MediaSequenceLine(playlist.media_sequence)>>
  \o SegmentLines(playlist.listed)

\* parse_ll_playlist: the scan of the lines.
IndexNew ==
  [ media_sequence |-> None, current_seq |-> 0, part_count |-> 0,
    parts_by_seq |-> {}, last_complete_seq |-> None ]

RECURSIVE ScanLines(_, _)
ScanLines(lines, index) ==
  IF lines = <<>> THEN index
  ELSE
    LET line == Head(lines)
        next ==
          IF line.kind = "media-sequence"
          THEN [ index EXCEPT !.media_sequence = Some(line.value),
                              !.current_seq = line.value,
                              !.part_count = 0 ]
          ELSE IF line.kind = "part"
          THEN [ index EXCEPT !.part_count = @ + 1 ]
          ELSE IF line.kind = "tag" THEN index
          ELSE IF index.media_sequence # None
          THEN [ index EXCEPT
                   !.parts_by_seq =
                      { e \in @ : e[1] # index.current_seq }
                        \cup { <<index.current_seq, index.part_count>> },
                   !.last_complete_seq = Some(index.current_seq),
                   !.current_seq = @ + 1,
                   !.part_count = 0 ]
          ELSE index
    IN ScanLines(Tail(lines), next)

ParseLlPlaylist(lines) ==
  LET index == ScanLines(lines, IndexNew)
  IN IF index.media_sequence = None THEN None
     ELSE Some([ media_sequence |-> index.media_sequence[1],
                 parts_by_seq |-> index.parts_by_seq,
                 in_progress_seq |-> index.current_seq,
                 in_progress_parts |-> index.part_count,
                 last_complete_seq |-> index.last_complete_seq ])

\* A faulty variant of the operator below: one part too few is asked for.
PartPresentInclusive(part_index, count) == part_index <= count

\* Part part_index is among count parts.
PartPresent(part_index, count) == part_index < count

\* ll_request_ready.
LlRequestReady(lines, msn, part) ==
  LET parsed == ParseLlPlaylist(lines)
  IN IF parsed = None THEN TRUE
     ELSE
       LET index == parsed[1]
       IN IF msn < index.media_sequence THEN TRUE
          ELSE IF part = None
          THEN /\ index.last_complete_seq # None
               /\ msn <= index.last_complete_seq[1]
          ELSE IF msn = index.in_progress_seq
          THEN PartPresent(part[1], index.in_progress_parts)
          ELSE \E e \in index.parts_by_seq :
                 /\ e[1] = msn
                 /\ PartPresent(part[1], e[2])

\* A faulty variant of the operator below: the deadline never passes.
DeadlineNever(now, deadline) == FALSE

\* Instant::now() >= deadline.
DeadlinePassed(now, deadline) == now >= deadline

WriterNew ==
  [ segments |-> <<>>, current |-> None, sequence |-> 0, writes |-> 0,
    purges |-> 0 ]

\* The handler record: its position, the query, the deadline, the last
\* readiness test, the answer, and whether a poll that should have answered
\* went back to sleep.
ReloadNew ==
  [ pc |-> "idle", msn |-> None, part |-> None, deadline |-> 0,
    test |-> None, answer |-> None, polls |-> 0, overslept |-> FALSE ]

ReloadInit ==
  /\ hlsWriter = WriterNew
  /\ plFile = None
  /\ reload = ReloadNew
  /\ clock = 0

ReloadIdle == ReloadInit

\* The playlist the writer's state renders to, current is its local buffer.
WriterPlaylist(writer, current) ==
  RenderPlaylist([ segments |-> writer.segments ], current)

\* The file write_playlist leaves: the lines, and for the properties the
\* playlist they were rendered from.
PlaylistFile(playlist) ==
  [ lines |-> PlaylistLines(playlist), shown |-> playlist ]

\* start_segment and a flush_part of the segmenter: a part joins the segment
\* in progress and write_playlist(Some(current)) replaces the file.
WriterFlushPart ==
  /\ hlsWriter.writes < MaxWrites
  /\ LET started == IF hlsWriter.current # None THEN hlsWriter
                    ELSE [ hlsWriter EXCEPT
                             !.sequence = @ + 1,
                             !.current = Some([ seq |-> hlsWriter.sequence,
                                                parts |-> <<>> ]) ]
         current == Some([ started.current[1] EXCEPT
                             !.parts = Append(@, PartLine) ])
     IN /\ hlsWriter' = [ started EXCEPT !.current = current,
                                         !.writes = @ + 1 ]
        /\ plFile' = Some(PlaylistFile(WriterPlaylist(started, current)))
  /\ UNCHANGED <<reload, clock>>

\* finalize_segment_buffer: the segment joins the retained ones, the window
\* slides, write_playlist(None) replaces the file.
WriterFinalize ==
  /\ hlsWriter.writes < MaxWrites
  /\ hlsWriter.current # None
  /\ LET info == [ seq |-> hlsWriter.current[1].seq,
                   parts |-> hlsWriter.current[1].parts ]
         kept == TrimFront(Append(hlsWriter.segments, info), cmafCfg.window)
         writer == [ hlsWriter EXCEPT !.segments = kept, !.current = None,
                                      !.writes = @ + 1 ]
     IN /\ hlsWriter' = writer
        /\ plFile' = Some(PlaylistFile(WriterPlaylist(writer, None)))
  /\ UNCHANGED <<reload, clock>>

\* The session ended and the next turn of run_rtsp_hls purged the directory.
WriterPurge ==
  /\ hlsWriter.purges < MaxPurges
  /\ plFile # None
  /\ hlsWriter' = [ WriterNew EXCEPT !.writes = hlsWriter.writes,
                                     !.purges = hlsWriter.purges + 1 ]
  /\ plFile' = None
  /\ UNCHANGED <<reload, clock>>

\* get_playlist up to its loop: the query and the deadline.
ReloadGet ==
  /\ reload.pc = "idle"
  /\ \E msn \in {None} \cup { Some(m) : m \in 0..MaxMsn },
        part \in {None} \cup { Some(q) : q \in 0..MaxPart } :
       reload' = [ reload EXCEPT
                     !.pc = "poll", !.msn = msn, !.part = part,
                     !.deadline = clock + ReloadDeadlineMs ]
  /\ UNCHANGED <<hlsWriter, plFile, clock>>

\* One turn of the loop of get_playlist: read the file, test, answer or go
\* to sleep.
ReloadPoll ==
  /\ reload.pc = "poll"
  /\ LET should_block == reload.msn # None
         ready == IF plFile # None /\ should_block
                  THEN LlRequestReady(plFile[1].lines, reload.msn[1],
                                      reload.part)
                  ELSE FALSE
         passed == DeadlinePassed(clock, reload.deadline)
         polled == [ reload EXCEPT
                       !.polls = @ + 1,
                       !.test = IF plFile # None /\ should_block
                                THEN Some([ shown |-> plFile[1].shown,
                                            ready |-> ready ])
                                ELSE @ ]
     IN reload' =
          IF plFile = None
          THEN [ polled EXCEPT
                   !.pc = "done",
                   !.answer = Some([ status |-> 404, at |-> clock,
                                     ready |-> FALSE, found |-> FALSE ]) ]
          ELSE IF should_block /\ ~ready /\ ~passed
          THEN [ polled EXCEPT
                   !.pc = "sleep",
                   !.overslept = @ \/ clock >= reload.deadline ]
          ELSE [ polled EXCEPT
                   !.pc = "done",
                   !.answer = Some([ status |-> 200, at |-> clock,
                                     ready |-> ready, found |-> TRUE ]) ]
  /\ UNCHANGED <<hlsWriter, plFile, clock>>

\* sleep(200 ms) of the loop.
ReloadSleep ==
  /\ reload.pc = "sleep"
  /\ clock < ReloadDeadlineMs + 3 * ReloadPollMs
  /\ clock' = clock + ReloadPollMs
  /\ reload' = [ reload EXCEPT !.pc = "poll" ]
  /\ UNCHANGED <<hlsWriter, plFile>>


(***************************************************************************)
(* The MQTT task of a runtime, its command queue and the POST command      *)
(* handler (mqtt.rs, printers.rs, http.rs).  The broker and the HTTP       *)
(* clients are the environment.                                            *)
(***************************************************************************)
VARIABLES
  printerState,  \* the PrinterState behind runtime.state
  statusWatch,   \* the value of the watch channel behind runtime.status_tx
  commands,      \* the mpsc channel of CommandRequest
  mqttTask,      \* mqtt::run: its position and the events it has handled
  posts,         \* the post_command handlers in flight, by slot
  followed       \* observer: the fate of one command, picked at its POST

mqttVars ==
  <<printerState, statusWatch, commands, mqttTask, posts, followed>>

\* mpsc::channel(32) of PrinterRuntime::spawn.
COMMAND_CAPACITY == 32

\* Bounds: the handlers in flight at a time and the events the broker
\* connection delivers.
MaxPosters == 2
MaxEvents == 2

\* PrinterState::default(); reports counts the reports applied.
PrinterStateDefault ==
  [ connected |-> FALSE, reports |-> 0, last_update |-> None ]

\* set_connected.
SetConnected(state, connected) ==
  [ state EXCEPT !.connected = connected,
                 !.last_update = IF connected THEN @ ELSE None ]

\* The arm of mqtt::run for a PUBLISH whose payload parses as JSON.
ApplyReport(state) ==
  [ state EXCEPT !.connected = TRUE, !.reports = @ + 1,
                 !.last_update = Some(state.reports + 1) ]

\* What the status watch holds after the MQTT task has changed the state:
\* run has no sender of the watch and sends nothing.
StatusAfter(watch, state) == watch

\* A handler slot; mark is set on the handler of the followed command.
NoPost == [ pc |-> "free", mark |-> FALSE ]

\* The followed command: the status of its answer (0 before), the value of
\* state.connected its handler read, whether its send found the receiver
\* gone, whether it waited for room, was queued, was received by the task.
NotFollowed ==
  [ picked |-> FALSE, status |-> 0, connected |-> FALSE, closed |-> FALSE,
    waited |-> FALSE, queued |-> FALSE, handed |-> FALSE ]

MqttInit ==
  /\ printerState = PrinterStateDefault
  /\ statusWatch = PrinterStateDefault
  /\ commands = [ items |-> <<>>, closed |-> FALSE ]
  /\ mqttTask = [ pc |-> "subscribe", events |-> 0 ]
  /\ posts = [ slot \in 1..MaxPosters |-> NoPost ]
  /\ followed = NotFollowed

MqttIdle == MqttInit

\* client.subscribe on the fresh client, then the inner loop.
MqttSubscribe ==
  /\ mqttTask.pc = "subscribe"
  /\ mqttTask' = [ mqttTask EXCEPT !.pc = "loop" ]
  /\ UNCHANGED <<printerState, statusWatch, commands, posts, followed>>

\* eventloop.poll() yields CONNACK.
MqttConnAck ==
  /\ mqttTask.pc = "loop"
  /\ mqttTask.events < MaxEvents
  /\ printerState' = SetConnected(printerState, TRUE)
  /\ statusWatch' = StatusAfter(statusWatch, printerState')
  /\ mqttTask' = [ mqttTask EXCEPT !.events = @ + 1 ]
  /\ UNCHANGED <<commands, posts, followed>>

\* eventloop.poll() yields a PUBLISH; a payload that is not JSON is logged.
MqttReport ==
  /\ mqttTask.pc = "loop"
  /\ mqttTask.events < MaxEvents
  /\ \E json \in BOOLEAN :
       printerState' = IF json THEN ApplyReport(printerState)
                       ELSE printerState
  /\ statusWatch' = StatusAfter(statusWatch, printerState')
  /\ mqttTask' = [ mqttTask EXCEPT !.events = @ + 1 ]
  /\ UNCHANGED <<commands, posts, followed>>

\* eventloop.poll() yields an error: disconnected, out of the inner loop and
\* into the 2 s sleep.
MqttError ==
  /\ mqttTask.pc = "loop"
  /\ mqttTask.events < MaxEvents
  /\ printerState' = SetConnected(printerState, FALSE)
  /\ statusWatch' = StatusAfter(statusWatch, printerState')
  /\ mqttTask' = [ mqttTask EXCEPT !.events = @ + 1, !.pc = "sleep" ]
  /\ UNCHANGED <<commands, posts, followed>>

MqttWake ==
  /\ mqttTask.pc = "sleep"
  /\ mqttTask' = [ mqttTask EXCEPT !.pc = "subscribe" ]
  /\ UNCHANGED <<printerState, statusWatch, commands, posts, followed>>

\* command_rx.recv() yields a command, which is encoded and published on the
\* request topic.
MqttCommand ==
  /\ mqttTask.pc = "loop"
  /\ commands.items # <<>>
  /\ commands' = [ commands EXCEPT !.items = Tail(@) ]
  /\ followed' = IF Head(commands.items)
                 THEN [ followed EXCEPT !.handed = TRUE ]
                 ELSE followed
  /\ UNCHANGED <<printerState, statusWatch, mqttTask, posts>>

\* PrinterRuntime::shutdown aborts the task: the receiver is dropped with
\* the commands still queued.
MqttAbort ==
  /\ mqttTask.pc # "aborted"
  /\ mqttTask' = [ mqttTask EXCEPT !.pc = "aborted" ]
  /\ commands' = [ items |-> <<>>, closed |-> TRUE ]
  /\ UNCHANGED <<printerState, statusWatch, posts, followed>>

\* A faulty variant of the operator below: no request is turned away.
RejectsNever(connected) == FALSE

\* The first test of post_command.
RejectsDisconnected(connected) == ~connected

\* post_command up to its reading of state.connected; the observer may pick
\* the command to follow.
PostStart ==
  \E slot \in 1..MaxPosters, mark \in BOOLEAN :
    /\ posts[slot].pc = "free"
    /\ \A other \in 1..(slot - 1) : posts[other].pc # "free"
    /\ mark => ~followed.picked
    /\ posts' = [ posts EXCEPT ![slot] = [ pc |-> "check", mark |-> mark ] ]
    /\ followed' = IF mark THEN [ followed EXCEPT !.picked = TRUE ]
                   ELSE followed
    /\ UNCHANGED <<printerState, statusWatch, commands, mqttTask>>

\* The read of state.connected and the 503 "printer not connected".
PostCheck ==
  \E slot \in 1..MaxPosters :
    /\ posts[slot].pc = "check"
    /\ IF RejectsDisconnected(printerState.connected)
       THEN /\ posts' = [ posts EXCEPT ![slot] = NoPost ]
            /\ followed' =
                 IF posts[slot].mark
                 THEN [ followed EXCEPT
                          !.status = 503,
                          !.connected = printerState.connected ]
                 ELSE followed
       ELSE /\ posts' = [ posts EXCEPT ![slot].pc = "send" ]
            /\ followed' =
                 IF posts[slot].mark
                 THEN [ followed EXCEPT
                          !.connected = printerState.connected ]
                 ELSE followed
    /\ UNCHANGED <<printerState, statusWatch, commands, mqttTask>>

\* command_tx.send(command).await: an error and the 503 "command channel
\* unavailable" when the receiver is gone, the command queued and 200 when
\* there is room, and otherwise the handler waits for a permit.
PostSend ==
  \E slot \in 1..MaxPosters :
    /\ posts[slot].pc \in {"send", "waiting"}
    /\ IF commands.closed
       THEN /\ posts' = [ posts EXCEPT ![slot] = NoPost ]
            /\ followed' =
                 IF posts[slot].mark
                 THEN [ followed EXCEPT !.status = 503, !.closed = TRUE ]
                 ELSE followed
            /\ UNCHANGED commands
       ELSE IF Len(commands.items) < COMMAND_CAPACITY
       THEN /\ posts' = [ posts EXCEPT ![slot] = NoPost ]
            /\ followed' =
                 IF posts[slot].mark
                 THEN [ followed EXCEPT !.status = 200, !.queued = TRUE ]
                 ELSE followed
            /\ commands' = [ commands EXCEPT
                               !.items = Append(@, posts[slot].mark) ]
       ELSE /\ posts[slot].pc = "send"
            /\ posts' = [ posts EXCEPT ![slot].pc = "waiting" ]
            /\ followed' =
                 IF posts[slot].mark
                 THEN [ followed EXCEPT !.waited = TRUE ]
                 ELSE followed
            /\ UNCHANGED commands
    /\ UNCHANGED <<printerState, statusWatch, mqttTask>>


(***************************************************************************)
(* The RTSP authenticator (rtsp/auth.rs).  The challenges come from the    *)
(* server; the cnonce is a random draw.                                    *)
(***************************************************************************)
VARIABLES
  auth,       \* the RtspAuthenticator fields
  authObs     \* observer: the last header built and the counts of the calls

authVars == <<auth, authObs>>

\* Bounds: the calls of authorization_header and of update_challenge, the
\* nonces the server hands out and the cnonces drawn.
MaxAuthRequests == 4
MaxUpdates == 3
MaxNonces == 2
MaxCnonces == 2

\* The www-authenticate values update_challenge is given: the scheme, and
\* the realm, nonce and qop parameters (nonce 0: no nonce parameter).
ChallengeHeaders ==
  [ digest : BOOLEAN, realm : BOOLEAN, nonce : 0..MaxNonces, qop : BOOLEAN ]

\* DigestChallenge::from_header.
FromHeader(header) ==
  IF ~header.digest \/ ~header.realm \/ header.nonce = 0 THEN None
  ELSE Some([ nonce |-> header.nonce, qop |-> header.qop ])

\* format!("{:08x}", nonce_count): the eight hexadecimal digits.
Hex8(n) ==
  LET Power16(e) == IF e = 0 THEN 1 ELSE IF e = 1 THEN 16
                    ELSE IF e = 2 THEN 256 ELSE IF e = 3 THEN 4096
                    ELSE IF e = 4 THEN 65536 ELSE IF e = 5 THEN 1048576
                    ELSE IF e = 6 THEN 16777216 ELSE 268435456
  IN [ i \in 1..8 |-> (n \div Power16(8 - i)) % 16 ]

\* A faulty variant of the operator below: the count moves by two.
NextNonceCountByTwo(nonce_count) == nonce_count + 2

\* nonce_count.saturating_add(1); the u32 ceiling is out of reach here.
NextNonceCount(nonce_count) == nonce_count + 1

\* RtspAuthenticator::new, with the cnonce of its reset_nonce.
AuthNew(cnonce) == [ digest |-> None, nonce_count |-> 0, cnonce |-> cnonce ]

AuthObsNew ==
  [ requests |-> 0, updates |-> 0, since |-> 0, installed |-> 0,
    last |-> None ]

AuthInit ==
  /\ auth \in { AuthNew(cnonce) : cnonce \in 1..MaxCnonces }
  /\ authObs = AuthObsNew

AuthIdle ==
  /\ auth = AuthNew(1)
  /\ authObs = AuthObsNew

\* update_challenge: a header that parses replaces the challenge, zeroes the
\* nonce count and draws a new cnonce; any other header changes nothing.
AuthUpdateChallenge ==
  /\ authObs.updates < MaxUpdates
  /\ \E header \in ChallengeHeaders, cnonce \in 1..MaxCnonces :
       IF FromHeader(header) = None
       THEN /\ cnonce = 1
            /\ auth' = auth
            /\ authObs' = [ authObs EXCEPT !.updates = @ + 1 ]
       ELSE /\ auth' = [ digest |-> FromHeader(header), nonce_count |-> 0,
                         cnonce |-> cnonce ]
            /\ authObs' = [ authObs EXCEPT !.updates = @ + 1, !.since = 0,
                                           !.installed = @ + 1 ]

\* authorization_header: Basic without a challenge; Digest with nc and
\* cnonce when the challenge has a qop, Digest without them otherwise.
AuthAuthorize ==
  /\ authObs.requests < MaxAuthRequests
  /\ IF auth.digest = None
     THEN /\ auth' = auth
          /\ authObs' = [ authObs EXCEPT
                            !.requests = @ + 1,
                            !.last = Some([ scheme |-> "Basic", nonce |-> 0,
                                            nc |-> None, cnonce |-> None ]) ]
     ELSE IF auth.digest[1].qop
     THEN /\ auth' = [ auth EXCEPT
                         !.nonce_count = NextNonceCount(auth.nonce_count) ]
          /\ authObs' = [ authObs EXCEPT
                            !.requests = @ + 1, !.since = @ + 1,
                            !.last = Some([ scheme |-> "Digest",
                                            nonce |-> auth.digest[1].nonce,
                                            nc |-> Some(Hex8(auth'.nonce_count)),
                                            cnonce |-> Some(auth.cnonce) ]) ]
     ELSE /\ auth' = auth
          /\ authObs' = [ authObs EXCEPT
                            !.requests = @ + 1, !.since = @ + 1,
                            !.last = Some([ scheme |-> "Digest",
                                            nonce |-> auth.digest[1].nonce,
                                            nc |-> None, cnonce |-> None ]) ]


(***************************************************************************)
(* The RTSP stream parser and the dispatch of its events by the reader     *)
(* (rtsp/parser.rs, rtsp/client.rs).  A byte of the stream is a record:    *)
(* a raw byte, or a whole header line (its text without the CRLF), which   *)
(* the parser only ever looks at as a whole.                               *)
(***************************************************************************)
VARIABLES
  byteStream, \* the frames the server sends and the bytes not yet read
  parserBuf,  \* RtspStreamParser.buffer
  readerOut   \* the events append has returned and the responses delivered

parserVars == <<byteStream, parserBuf, readerOut>>

\* Bounds: the frames of a stream and the CSeq values in them.
MaxStreamFrames == 3
MaxCseq == 1

Byte(n) == [ t |-> "byte", v |-> n ]
Dollar == Byte(36)
Cr == Byte(13)
Lf == Byte(10)
StatusLine(code) == [ t |-> "status", v |-> code ]
BadStatusLine == [ t |-> "badstatus", v |-> 0 ]
CseqLine(n) == [ t |-> "cseq", v |-> n ]
ContentLengthLine(n) == [ t |-> "content-length", v |-> n ]

\* The frames of a stream: interleaved frames of channel 0 with no payload
\* or a payload of one byte, a '$', and responses with a status line that parses or
\* not, with or without CSeq, with or without a one-byte body.
InterleavedFrames ==
  [ kind : {"interleaved"}, channel : {0},
    payload : { <<>>, <<Dollar>> } ]

ResponseFrames ==
  [ kind : {"response"}, status : {200, 0}, cseq : {None, Some(MaxCseq)},
    body : { <<>>, <<Dollar>> } ]

StreamFrames == InterleavedFrames \cup ResponseFrames

\* The bytes of a frame on the wire.
FrameBytes(frame) ==
  IF frame.kind = "interleaved"
  THEN <<Dollar, Byte(frame.channel), Byte(Len(frame.payload) \div 256),
         Byte(Len(frame.payload) % 256)>> \o frame.payload
  ELSE <<IF frame.status = 0 THEN BadStatusLine
         ELSE StatusLine(frame.status), Cr, Lf>>
       \o ( IF frame.cseq = None THEN <<>>
            ELSE <<CseqLine(frame.cseq[1]), Cr, Lf>> )
       \o ( IF frame.body = <<>> THEN <<>>
            ELSE <<ContentLengthLine(Len(frame.body)), Cr, Lf>> )
       \o <<Cr, Lf>> \o frame.body

RECURSIVE StreamBytes(_)
StreamBytes(frames) ==
  IF frames = <<>> THEN <<>>
  ELSE FrameBytes(Head(frames)) \o StreamBytes(Tail(frames))

\* find_double_crlf: the 0-based position of the first CR LF CR LF.
FindDoubleCrlf(buffer) ==
  LET at == { i \in 1..(Len(buffer) - 3) :
                /\ buffer[i] = Cr /\ buffer[i + 1] = Lf
                /\ buffer[i + 2] = Cr /\ buffer[i + 3] = Lf }
  IN IF at = {} THEN None
     ELSE Some((CHOOSE i \in at : \A j \in at : i <= j) - 1)

\* A faulty variant of the operator below: a frame whose payload has not
\* arrived whole is emitted with the bytes at hand.
ExtractInterleavedAtHand(buffer) ==
  IF Len(buffer) < 4 \/ buffer[1] # Dollar THEN None
  ELSE Some([ event |-> [ kind |-> "interleaved", channel |-> buffer[2].v,
                          payload |-> SubSeq(buffer, 5,
                             Min2(Len(buffer),
                                  4 + (buffer[3].v * 256 + buffer[4].v))) ],
              buffer |-> SubSeq(buffer,
                                5 + (buffer[3].v * 256 + buffer[4].v),
                                Len(buffer)) ])

\* extract_interleaved: the event and the buffer after the drain, or None.
ExtractInterleaved(buffer) ==
  IF Len(buffer) < 4 \/ buffer[1] # Dollar THEN None
  ELSE LET total == 4 + (buffer[3].v * 256 + buffer[4].v)
       IN IF Len(buffer) < total THEN None
          ELSE Some([ event |-> [ kind |-> "interleaved",
                                  channel |-> buffer[2].v,
                                  payload |-> SubSeq(buffer, 5, total) ],
                      buffer |-> SubSeq(buffer, total + 1, Len(buffer)) ])

\* The value of the last header line of kind name, if any.
HeaderValue(lines, name) ==
  LET at == { i \in 1..Len(lines) : lines[i].t = name }
  IN IF at = {} THEN None
     ELSE Some(lines[CHOOSE i \in at : \A j \in at : j <= i].v)

\* extract_response: the response and the buffer after the drain, or None;
\* every ? of the function returns None with the buffer as it was.
ExtractResponse(buffer) ==
  LET header_end == FindDoubleCrlf(buffer)
  IN IF header_end = None THEN None
     ELSE
       LET IsLine(b) == b # Cr /\ b # Lf
           lines == SelectSeq(SubSeq(buffer, 1, header_end[1]), IsLine)
       IN IF lines = <<>> THEN None
          ELSE IF lines[1].t # "status" THEN None
          ELSE
            LET length == HeaderValue(lines, "content-length")
                content_length == IF length = None THEN 0 ELSE length[1]
                total_length == header_end[1] + 4 + content_length
            IN IF Len(buffer) < total_length THEN None
               ELSE Some([ event |->
                             [ kind |-> "response",
                               status |-> lines[1].v,
                               cseq |-> HeaderValue(lines, "cseq"),
                               body |-> SubSeq(buffer, header_end[1] + 5,
                                               total_length) ],
                           buffer |-> SubSeq(buffer, total_length + 1,
                                             Len(buffer)) ])

\* The loop of append on the buffer: the events and the buffer left.
RECURSIVE Drain(_, _)
Drain(buffer, events) ==
  IF buffer = <<>> THEN [ buffer |-> buffer, events |-> events ]
  ELSE LET Took(extracted) ==
             IF extracted = None
             THEN [ buffer |-> buffer, events |-> events ]
             ELSE Drain(extracted[1].buffer,
                        Append(events, extracted[1].event))
       IN IF buffer[1] = Dollar THEN Took(ExtractInterleaved(buffer))
          ELSE Took(ExtractResponse(buffer))

\* The dispatch of reader_loop: the responses sent to a waiting request; the
\* request of every CSeq up to MaxCseq is waiting.
RECURSIVE Dispatched(_)
Dispatched(events) ==
  IF events = <<>> THEN <<>>
  ELSE ( IF Head(events).kind = "response" /\ Head(events).cseq # None
         THEN <<Head(events)>> ELSE <<>> ) \o Dispatched(Tail(events))

\* The streams of at most MaxStreamFrames frames.
Streams ==
  UNION { [ 1..n -> StreamFrames ] : n \in 0..MaxStreamFrames }

ParserInit ==
  /\ \E frames \in Streams :
       byteStream = [ frames |-> frames, unread |-> StreamBytes(frames) ]
  /\ parserBuf = <<>>
  /\ readerOut = [ events |-> <<>>, delivered |-> <<>> ]

ParserIdle ==
  /\ byteStream = [ frames |-> <<>>, unread |-> <<>> ]
  /\ parserBuf = <<>>
  /\ readerOut = [ events |-> <<>>, delivered |-> <<>> ]

\* One turn of reader_loop: a read of n bytes, append, and the dispatch of
\* the events it returned.
ReaderRead ==
  /\ byteStream.unread # <<>>
  /\ \E n \in 1..Len(byteStream.unread) :
       \E drained \in { Drain(parserBuf \o SubSeq(byteStream.unread, 1, n),
                              <<>>) } :
         /\ byteStream' = [ byteStream EXCEPT
                              !.unread = SubSeq(@, n + 1, Len(@)) ]
         /\ parserBuf' = drained.buffer
         /\ readerOut' = [ events |-> readerOut.events \o drained.events,
                           delivered |-> readerOut.delivered
                                           \o Dispatched(drained.events) ]


(***************************************************************************)
(* The session timeout and the keep-alive period (rtsp/client.rs).  Times  *)
(* are in milliseconds; the halves of whole seconds are exact in f64.      *)
(***************************************************************************)
VARIABLES
  session,    \* RtspConnection.session_id and session_timeout
  keepalive   \* what start_keepalive did, and the timeout it read

kaVars == <<session, keepalive>>

\* Bound: the timeouts, in seconds, of the Session headers of the server.
MaxTimeout == 40

KeepaliveDefaultMs == 5000

\* The Session headers of a response: none, or a session id (empty or not)
\* with no timeout parameter, with timeout=t, or with timeout=-1, which is
\* no u64.
SessionHeaders ==
  {None} \cup { Some([ id |-> id, timeout |-> timeout ]) :
                  id \in {"", "abc"},
                  timeout \in {None, Some(-1)}
                                \cup { Some(t) : t \in 0..MaxTimeout } }

\* parse_session_info: the session id and the timeout in seconds, if any.
ParseSessionInfo(header) ==
  IF header = None THEN None
  ELSE IF header[1].id = "" THEN None
  ELSE Some([ id |-> header[1].id,
              timeout |-> IF header[1].timeout = None THEN None
                          ELSE IF header[1].timeout[1] < 0 THEN None
                          ELSE header[1].timeout ])

\* f64::clamp, which panics when min > max.
Clamp(x, min, max) ==
  IF min > max THEN [ panic |-> TRUE, value |-> 0 ]
  ELSE [ panic |-> FALSE,
         value |-> IF x < min THEN min ELSE IF x > max THEN max ELSE x ]

\* The interval of start_keepalive for a session timeout in seconds.
KeepaliveInterval(timeout) ==
  IF timeout = None THEN [ panic |-> FALSE, value |-> KeepaliveDefaultMs ]
  ELSE Clamp(timeout[1] * 500, 1000, (Max2(timeout[1], 1) - 1) * 1000)

SessionNew == [ id |-> None, timeout |-> None ]

KeepaliveNone == [ state |-> "none", read |-> None, interval |-> 0 ]

KaInit ==
  /\ session = SessionNew
  /\ keepalive = KeepaliveNone

KaIdle == KaInit

\* reader_loop receives a response, before start_keepalive or after it: a
\* Session header that parses replaces the session id and the timeout.
SessionResponse ==
  /\ \E header \in SessionHeaders :
       session' = IF ParseSessionInfo(header) = None THEN session
                  ELSE [ id |-> Some(ParseSessionInfo(header)[1].id),
                         timeout |-> ParseSessionInfo(header)[1].timeout ]
  /\ UNCHANGED keepalive

\* start_keepalive: the interval is computed and the task spawned, or the
\* computation panics.
StartKeepalive ==
  /\ keepalive.state = "none"
  /\ keepalive' =
       [ state |-> IF KeepaliveInterval(session.timeout).panic
                   THEN "panicked" ELSE "spawned",
         read |-> session.timeout,
         interval |-> KeepaliveInterval(session.timeout).value ]
  /\ UNCHANGED session

\* The connection is dropped and the next attempt makes a new one.
SessionReconnect ==
  /\ keepalive.state # "none"
  /\ session' = SessionNew
  /\ keepalive' = KeepaliveNone


(***************************************************************************)
(* The RTP time mapper (rtsp/time.rs).  A u32 is a pair of 16-bit halves,  *)
(* so that the arithmetic modulo 2^32 is the code's.                       *)
(***************************************************************************)
VARIABLES
  mapper,     \* RtpTimeMapper.first_timestamp
  rtpClock    \* the timestamps of the session's packets and the PTS returned

timeVars == <<mapper, rtpClock>>

\* Bound: the packets of one session.
MaxRtpPackets == 5

HalfWord == 65536

U32(hi, lo) == [ hi |-> hi, lo |-> lo ]

\* u32::wrapping_add and u32::wrapping_sub.
WrappingAdd(a, b) ==
  U32((a.hi + b.hi + ((a.lo + b.lo) \div HalfWord)) % HalfWord,
      (a.lo + b.lo) % HalfWord)

WrappingSub(a, b) ==
  U32((a.hi - b.hi - (IF a.lo < b.lo THEN 1 ELSE 0) + HalfWord) % HalfWord,
      (a.lo - b.lo + HalfWord) % HalfWord)

\* a + b does not fit in 32 bits.
Carries(a, b) ==
  a.hi + b.hi + ((a.lo + b.lo) \div HalfWord) >= HalfWord

Below(a, b) == a.hi < b.hi \/ (a.hi = b.hi /\ a.lo < b.lo)

\* The first timestamps of a session: 0, 0xFFFFFF00 and 0x80000000.
RtpBases == { U32(0, 0), U32(65535, 65280), U32(32768, 0) }

\* The increments from one packet to the next: a frame at 30 fps (3000),
\* 0x110, and 2^30 and 2^31 - 1 ticks (3.3 and 6.6 hours).
RtpIncrements ==
  { U32(0, 3000), U32(0, 272), U32(16384, 0), U32(32767, 65535) }

\* RtpTimeMapper::pts90k: the field after the call and the PTS returned,
\* a u64 below 2^32.
Pts90k(first_timestamp, rtp_timestamp) ==
  LET first == IF first_timestamp = None THEN Some(rtp_timestamp)
               ELSE first_timestamp
  IN [ first_timestamp |-> first,
       pts |-> WrappingSub(rtp_timestamp, first[1]) ]

\* RtpTimeMapper::new, and a session without packets: elapsed is the sum of
\* the increments modulo 2^32 and over tells that the sum has passed 2^32.
MapperNew == None

RtpClockNew ==
  [ count |-> 0, timestamp |-> U32(0, 0), pts |-> U32(0, 0),
    previous |-> U32(0, 0), elapsed |-> U32(0, 0), over |-> FALSE ]

TimeInit ==
  /\ mapper = MapperNew
  /\ rtpClock = RtpClockNew

TimeIdle == TimeInit

\* The first packet of the session.
PtsFirst ==
  /\ rtpClock.count = 0
  /\ \E base \in RtpBases :
       /\ mapper' = Pts90k(mapper, base).first_timestamp
       /\ rtpClock' = [ rtpClock EXCEPT
                          !.count = 1, !.timestamp = base,
                          !.pts = Pts90k(mapper, base).pts,
                          !.previous = Pts90k(mapper, base).pts ]

\* A later packet: its timestamp is the previous one plus an increment.
PtsNext ==
  /\ rtpClock.count > 0
  /\ rtpClock.count < MaxRtpPackets
  /\ \E increment \in RtpIncrements :
       /\ mapper' =
            Pts90k(mapper,
                   WrappingAdd(rtpClock.timestamp, increment)).first_timestamp
       /\ rtpClock' =
            [ count |-> rtpClock.count + 1,
              timestamp |-> WrappingAdd(rtpClock.timestamp, increment),
              pts |-> Pts90k(mapper, WrappingAdd(rtpClock.timestamp,
                                                 increment)).pts,
              previous |-> rtpClock.pts,
              elapsed |-> WrappingAdd(rtpClock.elapsed, increment),
              over |-> rtpClock.over
                         \/ Carries(rtpClock.elapsed, increment) ]

\* The session ends; the next one has a new mapper.
PtsSessionEnd ==
  /\ rtpClock.count > 0
  /\ mapper' = MapperNew
  /\ rtpClock' = RtpClockNew


(***************************************************************************)
(* GET of a segment file with a Range header (http.rs).  Times are in      *)
(* milliseconds since the request arrived; a file is its length.           *)
(***************************************************************************)
VARIABLES
  segFile,    \* the segment file: whether it can be read, and its length
  rangeReq,   \* the handler of get_segment and its answer
  rangeClock  \* the time since the request arrived

rangeVars == <<segFile, rangeReq, rangeClock>>

RangeWaitMs == 5000
RangePollMs == 150

\* The step of the clock: a third of the poll interval.
RangeTickMs == RangePollMs \div 3

\* Bound: the length of the segment file, in bytes.
MaxSegLen == 3

\* The Range headers: none, bytes=s-, bytes=s-e and the suffix bytes=-e.
RangeHeaders ==
  {None} \cup { Some([ start |-> s, end |-> e ]) :
                  s \in {None} \cup { Some(n) : n \in 0..MaxSegLen },
                  e \in {None} \cup { Some(n) : n \in 0..MaxSegLen } }

\* usize::saturating_sub.
SaturatingSub(a, b) == IF a >= b THEN a - b ELSE 0

\* A faulty variant of the operator below: an end below the start is taken
\* as the start.
ParseRangeLenient(range, len) ==
  IF range.start = None
  THEN IF range.end = None THEN None
       ELSE IF range.end[1] = 0 \/ len = 0 THEN None
       ELSE Some(<<SaturatingSub(len, range.end[1]),
                   SaturatingSub(len, 1)>>)
  ELSE IF range.start[1] >= len THEN None
  ELSE IF range.end = None
       THEN Some(<<range.start[1], SaturatingSub(len, 1)>>)
       ELSE Some(<<range.start[1],
                   Min2(Max2(range.end[1], range.start[1]),
                        SaturatingSub(len, 1))>>)

\* parse_range on a header of the form bytes=..., for a file of len bytes:
\* the first and the last byte to send, or None.
ParseRange(range, len) ==
  IF range.start = None
  THEN IF range.end = None THEN None
       ELSE IF range.end[1] = 0 \/ len = 0 THEN None
       ELSE Some(<<SaturatingSub(len, range.end[1]),
                   SaturatingSub(len, 1)>>)
  ELSE IF range.start[1] >= len THEN None
  ELSE IF range.end = None
       THEN Some(<<range.start[1], SaturatingSub(len, 1)>>)
       ELSE IF range.end[1] < range.start[1] THEN None
       ELSE Some(<<range.start[1],
                   Min2(range.end[1], SaturatingSub(len, 1))>>)

\* parse_range_start.
ParseRangeStart(range) == range.start

\* The end of get_segment: 206 with the bytes of the range, or 416.
RangeAnswer(range, total_len, at) ==
  IF range # None
  THEN [ status |-> 206, first |-> range[1][1], last |-> range[1][2],
         total |-> total_len, at |-> at ]
  ELSE [ status |-> 416, first |-> 0, last |-> 0, total |-> total_len,
         at |-> at ]

PlainAnswer(status, total_len) ==
  [ status |-> status, first |-> 0, last |-> 0, total |-> total_len,
    at |-> 0 ]

\* Instant::now() >= deadline.
RangeDeadlinePassed(now, deadline) == now >= deadline

\* grew observes the time at which the file became longer than the start
\* of the range; polls counts the reads of the loop.
RangeReqNew ==
  [ pc |-> "idle", header |-> None, total_len |-> 0, deadline |-> 0,
    wake |-> 0, polls |-> 0, grew |-> None, answer |-> None ]

RangeInit ==
  /\ segFile \in [ exists : {TRUE}, len : 0..MaxSegLen ]
  /\ rangeReq = RangeReqNew
  /\ rangeClock = 0

RangeIdle ==
  /\ segFile = [ exists |-> TRUE, len |-> 0 ]
  /\ rangeReq = RangeReqNew
  /\ rangeClock = 0

\* The segmenter appends a part to the file.
SegmentAppend ==
  /\ segFile.exists
  /\ rangeReq.pc \in {"check", "sleep"}
  /\ \E len \in (segFile.len + 1)..MaxSegLen :
       /\ segFile' = [ segFile EXCEPT !.len = len ]
       /\ rangeReq' =
            [ rangeReq EXCEPT
                !.grew = IF @ = None /\ len > rangeReq.header[1].start[1]
                         THEN Some(rangeClock) ELSE @ ]
  /\ UNCHANGED rangeClock

\* The segment leaves the window and its file is removed.
SegmentRemove ==
  /\ segFile.exists
  /\ rangeReq.pc \in {"idle", "check", "sleep"}
  /\ segFile' = [ segFile EXCEPT !.exists = FALSE ]
  /\ UNCHANGED <<rangeReq, rangeClock>>

\* get_segment up to the loop: the file is read and the header parsed.
RangeGet ==
  /\ rangeReq.pc = "idle"
  /\ \E header \in RangeHeaders :
       LET Answered(answer) ==
             [ rangeReq EXCEPT !.pc = "done", !.header = header,
                               !.total_len = segFile.len,
                               !.answer = Some(answer) ]
       IN rangeReq' =
            IF ~segFile.exists
            THEN Answered(PlainAnswer(404, 0))
            ELSE IF header = None
            THEN Answered(PlainAnswer(200, segFile.len))
            ELSE IF /\ ParseRange(header[1], segFile.len) = None
                    /\ ParseRangeStart(header[1]) # None
                    /\ ParseRangeStart(header[1])[1] >= segFile.len
            THEN [ rangeReq EXCEPT
                     !.pc = "check", !.header = header,
                     !.total_len = segFile.len,
                     !.deadline = rangeClock + RangeWaitMs ]
            ELSE Answered(RangeAnswer(ParseRange(header[1], segFile.len),
                                      segFile.len, rangeClock))
  /\ UNCHANGED <<segFile, rangeClock>>

\* The head of the loop: past the deadline the loop ends without a range.
RangeCheck ==
  /\ rangeReq.pc = "check"
  /\ rangeReq' =
       IF RangeDeadlinePassed(rangeClock, rangeReq.deadline)
       THEN [ rangeReq EXCEPT
                !.pc = "done",
                !.answer = Some(RangeAnswer(None, rangeReq.total_len,
                                            rangeClock)) ]
       ELSE [ rangeReq EXCEPT !.pc = "sleep",
                              !.wake = rangeClock + RangePollMs ]
  /\ UNCHANGED <<segFile, rangeClock>>

\* Time passes while the handler sleeps.
RangeTick ==
  /\ rangeReq.pc = "sleep"
  /\ rangeClock < rangeReq.wake
  /\ rangeClock' = rangeClock + RangeTickMs
  /\ UNCHANGED <<segFile, rangeReq>>

\* The sleep is over: the file is read again; when it is longer than the
\* start the range is parsed against the new length and the loop ends.
RangeWake ==
  /\ rangeReq.pc = "sleep"
  /\ rangeClock >= rangeReq.wake
  /\ rangeReq' =
       IF segFile.exists
       THEN IF rangeReq.header[1].start[1] < segFile.len
            THEN [ rangeReq EXCEPT
                     !.pc = "done", !.polls = @ + 1,
                     !.total_len = segFile.len,
                     !.answer =
                        Some(RangeAnswer(ParseRange(rangeReq.header[1],
                                                    segFile.len),
                                         segFile.len, rangeClock)) ]
            ELSE [ rangeReq EXCEPT !.pc = "check", !.polls = @ + 1,
                                   !.total_len = segFile.len ]
       ELSE [ rangeReq EXCEPT !.pc = "check", !.polls = @ + 1 ]
  /\ UNCHANGED <<segFile, rangeClock>>


(***************************************************************************)
(* PrinterState::apply_report (state.rs).  A JSON value is a record with   *)
(* its type in t; the text of a string is the sequence of its character    *)
(* codes; a report gives, for every JSON pointer apply_report looks up,    *)
(* the value found there, if any.                                          *)
(***************************************************************************)
VARIABLES
  printer,    \* a PrinterState
  reportLog   \* the reports applied to it, and the state before the last

reportVars == <<printer, reportLog>>

\* Bounds: the reports applied to one state, and the times the same report
\* is applied again.
MaxReports == 2
MaxRepeats == 3

U8Max == 255

Num(n) == [ t |-> "number", n |-> n ]
Str(s) == [ t |-> "string", s |-> s ]
Bool(b) == [ t |-> "bool", b |-> b ]
Array(items) == [ t |-> "array", items |-> items ]
Text(text) == [ t |-> "string", text |-> text ]
Object(chamber_light) == [ t |-> "object", chamber_light |-> chamber_light ]

\* report.pointer(path).
Pointer(report, path) == report[path]

\* Option::or_else.
OrElse(a, b) == IF a # None THEN a ELSE b

\* str::parse of an unsigned integer: decimal digits after an optional '+'.
RECURSIVE DigitsValue(_)
DigitsValue(s) ==
  IF s = <<>> THEN 0
  ELSE DigitsValue(SubSeq(s, 1, Len(s) - 1)) * 10 + (s[Len(s)] - 48)

ParseUnsigned(s) ==
  LET digits == IF s # <<>> /\ s[1] = 43 THEN Tail(s) ELSE s
  IN IF digits # <<>> /\ \A i \in 1..Len(digits) : digits[i] \in 48..57
     THEN Some(DigitsValue(digits)) ELSE None

\* read_str, read_u8, read_u32 and read_f64.  Every number of the model is
\* below 2^32, so that read_u32 rejects the negative ones only; the numbers
\* and the texts of the model are whole, so that an f64 is an integer here.
ReadStr(value) ==
  IF value # None /\ value[1].t = "string" THEN Some(value[1].s) ELSE None

ReadU8(value) ==
  IF value = None THEN None
  ELSE IF value[1].t = "number"
  THEN IF value[1].n >= 0 /\ value[1].n <= U8Max
       THEN Some(value[1].n) ELSE None
  ELSE IF value[1].t = "string"
  THEN IF /\ ParseUnsigned(value[1].s) # None
          /\ ParseUnsigned(value[1].s)[1] <= U8Max
       THEN ParseUnsigned(value[1].s) ELSE None
  ELSE None

ReadU32(value) ==
  IF value = None THEN None
  ELSE IF value[1].t = "number"
  THEN IF value[1].n >= 0 THEN Some(value[1].n) ELSE None
  ELSE IF value[1].t = "string" THEN ParseUnsigned(value[1].s)
  ELSE None

ReadF64(value) ==
  IF value = None THEN None
  ELSE IF value[1].t = "number" THEN Some(value[1].n)
  ELSE IF value[1].t = "string" THEN ParseUnsigned(value[1].s)
  ELSE None

\* normalize_light_mode.
NormalizeLightMode(mode) == IF mode = "flashing" THEN "on" ELSE mode

\* extract_light: the mode of the first entry of node chamber_light with a
\* mode, or the member chamber_light of an object.
RECURSIVE FirstChamberLight(_)
FirstChamberLight(entries) ==
  IF entries = <<>> THEN None
  ELSE IF Head(entries).node = "chamber_light" /\ Head(entries).mode # None
  THEN Some(NormalizeLightMode(Head(entries).mode[1]))
  ELSE FirstChamberLight(Tail(entries))

ExtractLight(report) ==
  LET lights_value == OrElse(Pointer(report, "/print/lights_report"),
                             Pointer(report, "/lights_report"))
  IN IF lights_value = None THEN None
     ELSE IF lights_value[1].t = "array"
     THEN FirstChamberLight(lights_value[1].items)
     ELSE IF lights_value[1].t = "object"
     THEN LET value == lights_value[1].chamber_light
          IN IF value = None THEN None
             ELSE IF value[1].t = "number"
             THEN Some(IF value[1].n = 0 THEN "off" ELSE "on")
             ELSE IF value[1].t = "bool"
             THEN Some(IF value[1].b THEN "on" ELSE "off")
             ELSE IF value[1].t = "string"
             THEN Some(NormalizeLightMode(value[1].text))
             ELSE None
     ELSE None

\* non_empty_text, for a text without blanks around it.
NonEmptyText(text) == IF text = None \/ text = Some("") THEN None ELSE text

\* extract_tray_color.
ExtractTrayColor(tray) ==
  IF tray.tray_color # None THEN NonEmptyText(tray.tray_color)
  ELSE IF tray.cols = <<>> THEN None
  ELSE NonEmptyText(Some(Head(tray.cols)))

\* extract_ams_trays and extract_ams: a unit or a tray that is no object is
\* left out; a missing id is the position in the array.
RECURSIVE ExtractAmsTrays(_, _)
ExtractAmsTrays(trays, index) ==
  IF trays = <<>> THEN <<>>
  ELSE ( IF Head(trays).t # "tray" THEN <<>>
         ELSE <<[ id |-> OrElse(ReadU8(Head(trays).id), Some(index)),
                  filament_type |-> NonEmptyText(Head(trays).tray_type),
                  color |-> ExtractTrayColor(Head(trays)) ]>> )
       \o ExtractAmsTrays(Tail(trays), index + 1)

RECURSIVE ExtractAmsUnits(_, _)
ExtractAmsUnits(units, index) ==
  IF units = <<>> THEN <<>>
  ELSE ( IF Head(units).t # "unit" THEN <<>>
         ELSE <<[ id |-> OrElse(ReadU8(Head(units).id), Some(index + 1)),
                  humidity_raw |-> ReadU8(Head(units).humidity_raw),
                  trays |-> ExtractAmsTrays(Head(units).tray, 0) ]>> )
       \o ExtractAmsUnits(Tail(units), index + 1)

ExtractAms(report) ==
  LET ams_value == OrElse(Pointer(report, "/print/ams/ams"),
                          Pointer(report, "/ams/ams"))
  IN IF ams_value = None THEN None
     ELSE IF ams_value[1].t # "array" THEN None
     ELSE Some(ExtractAmsUnits(ams_value[1].items, 0))

\* PrinterState::default.
PrinterStateFields ==
  [ connected |-> FALSE, job_state |-> None, percent |-> None,
    layer_num |-> None, total_layer_num |-> None,
    remaining_minutes |-> None, nozzle_c |-> None,
    nozzle_target_c |-> None, bed_c |-> None, bed_target_c |-> None,
    chamber_c |-> None, light |-> None, rtsp_url |-> None, ams |-> <<>>,
    last_update |-> None ]

\* The value apply_report reads for a field, None when it keeps the old one.
ReportField(report, field) ==
  LET P(path) == Pointer(report, path)
  IN CASE field = "job_state" -> ReadStr(P("/print/gcode_state"))
       [] field = "percent" ->
            ReadU8(OrElse(P("/print/mc_percent"), P("/print/percent")))
       [] field = "layer_num" -> ReadU32(P("/print/layer_num"))
       [] field = "total_layer_num" -> ReadU32(P("/print/total_layer_num"))
       [] field = "remaining_minutes" ->
            ReadU32(OrElse(P("/print/mc_remaining_time"),
                           P("/print/remain_time")))
       [] field = "nozzle_c" ->
            ReadF64(OrElse(P("/print/nozzle_temper"),
                    OrElse(P("/temp/nozzle_temper"),
                           P("/print/device/extruder/info/0/temp"))))
       [] field = "nozzle_target_c" ->
            ReadF64(OrElse(P("/print/nozzle_target_temper"),
                    OrElse(P("/temp/nozzle_target_temper"),
                           P("/print/device/extruder/info/0/htar"))))
       [] field = "bed_c" ->
            ReadF64(OrElse(P("/print/bed_temper"),
                    OrElse(P("/temp/bed_temper"),
                           P("/print/device/bed/info/temp"))))
       [] field = "bed_target_c" ->
            ReadF64(OrElse(P("/print/bed_target_temper"),
                           P("/temp/bed_target_temper")))
       [] field = "chamber_c" ->
            ReadF64(OrElse(P("/print/chamber_temper"),
                    OrElse(P("/temp/chamber_temper"),
                           P("/print/device/ctc/info/temp"))))
       [] field = "light" -> ExtractLight(report)
       [] field = "rtsp_url" ->
            LET rtsp_url == ReadStr(OrElse(P("/print/ipcam/rtsp_url"),
                                           P("/ipcam/rtsp_url")))
            IN IF rtsp_url # None /\ rtsp_url[1] # <<>> THEN rtsp_url
               ELSE None
       [] field = "ams" -> ExtractAms(report)

\* The fields apply_report assigns from the report.
ReportedFields ==
  { "job_state", "percent", "layer_num", "total_layer_num",
    "remaining_minutes", "nozzle_c", "nozzle_target_c", "bed_c",
    "bed_target_c", "chamber_c", "light", "rtsp_url", "ams" }

\* A faulty variant of the operator below: the units are added to the old.
AmsAppended(old, new) == old \o new

\* self.ams = ams.
AmsAssigned(old, new) == new

\* A faulty variant of the operator below: a field the report has no value
\* for is cleared.
ApplyReportClearing(state, report, now) ==
  [ field \in DOMAIN state |->
      IF field = "last_update" THEN Some(now)
      ELSE IF field \notin ReportedFields THEN state[field]
      ELSE IF field = "ams"
      THEN IF ReportField(report, field) # None
           THEN AmsAssigned(state.ams, ReportField(report, field)[1])
           ELSE <<>>
      ELSE ReportField(report, field) ]

\* apply_report at time now.
ApplyReportAt(state, report, now) ==
  [ field \in DOMAIN state |->
      IF field = "last_update" THEN Some(now)
      ELSE IF field \notin ReportedFields THEN state[field]
      ELSE IF ReportField(report, field) = None THEN state[field]
      ELSE IF field = "ams"
      THEN AmsAssigned(state.ams, ReportField(report, field)[1])
      ELSE ReportField(report, field) ]

\* The pointers apply_report looks up.
ReportPointers ==
  { "/print/gcode_state", "/print/mc_percent", "/print/percent",
    "/print/layer_num", "/print/total_layer_num",
    "/print/mc_remaining_time", "/print/remain_time",
    "/print/nozzle_temper", "/temp/nozzle_temper",
    "/print/device/extruder/info/0/temp", "/print/nozzle_target_temper",
    "/temp/nozzle_target_temper", "/print/device/extruder/info/0/htar",
    "/print/bed_temper", "/temp/bed_temper", "/print/device/bed/info/temp",
    "/print/bed_target_temper", "/temp/bed_target_temper",
    "/print/chamber_temper", "/temp/chamber_temper",
    "/print/device/ctc/info/temp", "/print/lights_report",
    "/lights_report", "/print/ipcam/rtsp_url", "/ipcam/rtsp_url",
    "/print/ams/ams", "/ams/ams" }

\* The values the reports of the model have at a pointer, by the type read:
\* 37, 300, -1, "41", "37" and "x"; 60, "65", "x" and true; "R", "" and 1.
UnsignedValues ==
  { Num(37), Num(300), Num(-1), Str(<<52, 49>>), Str(<<51, 55>>),
    Str(<<120>>) }

FloatValues == { Num(60), Str(<<54, 53>>), Str(<<120>>), Bool(TRUE) }

TextValues == { Str(<<82>>), Str(<<>>), Num(1) }

LightValues ==
  { Array(<<[ node |-> "work_light", mode |-> Some("on") ],
            [ node |-> "chamber_light", mode |-> Some("flashing") ]>>),
    Array(<<[ node |-> "chamber_light", mode |-> None ]>>),
    Object(None), Object(Some(Num(0))), Object(Some(Bool(TRUE))),
    Object(Some(Text("off"))), Object(Some(Array(<<>>))), Str(<<120>>) }

AmsUnit(id, humidity_raw, tray) ==
  [ t |-> "unit", id |-> id, humidity_raw |-> humidity_raw, tray |-> tray ]

AmsTray(id, tray_type, tray_color, cols) ==
  [ t |-> "tray", id |-> id, tray_type |-> tray_type,
    tray_color |-> tray_color, cols |-> cols ]

AmsValues ==
  { Str(<<120>>), Array(<<>>), Array(<<Num(1)>>),
    Array(<<AmsUnit(None, Some(Str(<<50, 53>>)),
                    <<AmsTray(None, Some("PLA"), Some("FFFFFFFF"), <<>>),
                      Num(0),
                      AmsTray(Some(Num(2)), Some(""), None,
                              <<"161616FF">>)>>)>>),
    Array(<<Num(1), AmsUnit(Some(Num(2)), None, <<>>)>>) }

PointerValues(p) ==
  IF p \in { "/print/mc_percent", "/print/percent", "/print/layer_num" }
  THEN UnsignedValues
  ELSE IF p \in { "/print/nozzle_temper", "/print/bed_temper",
                  "/temp/bed_temper", "/print/device/bed/info/temp" }
  THEN FloatValues
  ELSE IF p \in { "/print/gcode_state", "/print/ipcam/rtsp_url",
                  "/ipcam/rtsp_url" } THEN TextValues
  ELSE IF p = "/print/lights_report" THEN LightValues
  ELSE IF p = "/lights_report" THEN { Object(Some(Bool(TRUE))) }
  ELSE IF p = "/print/ams/ams" THEN AmsValues
  ELSE IF p = "/ams/ams" THEN { Array(<<>>) }
  ELSE {}

EmptyReport == [ p \in ReportPointers |-> None ]

\* The reports of the model: empty, with a value at one pointer, and some
\* with values at two or three pointers, of one field or of several.
Reports ==
  { EmptyReport }
  \cup UNION { { [ EmptyReport EXCEPT ![p] = Some(v) ] :
                   v \in PointerValues(p) } : p \in ReportPointers }
  \cup { [ EmptyReport EXCEPT ![first] = Some(Str(<<120>>)),
                              ![second] = Some(Num(41)) ] :
           first \in { "/print/mc_percent", "/print/bed_temper" },
           second \in { "/print/percent", "/temp/bed_temper",
                        "/print/layer_num" } }
  \cup { [ EmptyReport EXCEPT !["/print/mc_percent"] = Some(Num(37)),
                              !["/print/bed_temper"] = Some(Num(60)),
                              !["/print/gcode_state"] = Some(Str(<<82>>)) ] }

\* once observes the state after the first report; stamp is Utc::now() of
\* the last call.
ReportLogNew ==
  [ reports |-> <<>>, repeats |-> 0, before |-> PrinterStateFields,
    once |-> PrinterStateFields ]

ReportInit ==
  /\ printer = PrinterStateFields
  /\ reportLog = ReportLogNew

ReportIdle == ReportInit

\* A report arrives and is applied.
ReportApply ==
  /\ Len(reportLog.reports) < MaxReports
  /\ \E report \in Reports :
       \E after \in { ApplyReportAt(printer, report,
                                    Len(reportLog.reports)
                                      + reportLog.repeats + 1) } :
         /\ printer' = after
         /\ reportLog' =
              [ reportLog EXCEPT
                  !.reports = Append(@, report),
                  !.before = printer,
                  !.once = IF reportLog.reports = <<>> THEN after ELSE @ ]

\* The first report arrives again and is applied again.
ReportRepeat ==
  /\ Len(reportLog.reports) = 1
  /\ reportLog.repeats < MaxRepeats
  /\ printer' = ApplyReportAt(printer, reportLog.reports[1],
                              reportLog.repeats + 2)
  /\ reportLog' = [ reportLog EXCEPT !.repeats = @ + 1,
                                     !.before = printer ]


(***************************************************************************)
(* The G-code of a Move command (commands.rs).  An f64 is a number of      *)
(* ten-thousandths of a millimetre; a text is the sequence of its          *)
(* characters.                                                             *)
(***************************************************************************)
VARIABLES
  moveCmd     \* the last Move command and the G1 line of its payload

gcodeVars == <<moveCmd>>

\* MAX_MOVE_MM in ten-thousandths, MIN_FEED_RATE and MAX_FEED_RATE.
MAX_MOVE == 500000
MIN_FEED_RATE == 60
MAX_FEED_RATE == 12000
DefaultFeedXY == 3000
DefaultFeedZ == 600

Finite(v) == [ kind |-> "finite", v |-> v ]

\* The distances of the model: -1000, -50.0001, -50, -49.9996, -1.2345,
\* -0.0005, -0.0004, 0, 0.0004, 0.0005, 0.1, 1.2345, 5, 49.9996, 50,
\* 50.0001 and 1000.  The command is deserialized from JSON, whose numbers
\* are finite.
Distances ==
  { Finite(v) : v \in { -10000000, -500001, -500000, -499996, -12345, -5,
                        -4, 0, 4, 5, 1000, 12345, 50000, 499996, 500000,
                        500001, 10000000 } }

FeedRates ==
  {None} \cup { Some(n) : n \in { 0, 1, 59, 60, 61, 600, 3000, 12000, 12001,
                                  2000000000 } }

MotionAxes == {"X", "Y", "Z"}

\* MotionAxis::default_feed_rate.
DefaultFeedRate(axis) == IF axis = "Z" THEN DefaultFeedZ ELSE DefaultFeedXY

\* A faulty variant of the operator below: the distance is not clamped.
SanitizeDistanceUnclamped(distance) ==
  IF distance.kind # "finite" THEN 0 ELSE distance.v

\* sanitize_distance: the finite result, in ten-thousandths.
SanitizeDistance(distance) ==
  IF distance.kind # "finite" THEN 0
  ELSE IF distance.v < -MAX_MOVE THEN -MAX_MOVE
  ELSE IF distance.v > MAX_MOVE THEN MAX_MOVE
  ELSE distance.v

\* sanitize_feed_rate.
SanitizeFeedRate(feed_rate) ==
  IF feed_rate < MIN_FEED_RATE THEN MIN_FEED_RATE
  ELSE IF feed_rate > MAX_FEED_RATE THEN MAX_FEED_RATE
  ELSE feed_rate

DigitChars == <<"0", "1", "2", "3", "4", "5", "6", "7", "8", "9">>

\* The decimal digits of a natural number, as {} of format! renders it.
RECURSIVE Digits(_)
Digits(n) ==
  IF n < 10 THEN <<DigitChars[n + 1]>>
  ELSE Digits(n \div 10) \o <<DigitChars[(n % 10) + 1]>>

RECURSIVE StripZeros(_)
StripZeros(rendered) ==
  IF rendered # <<>> /\ rendered[Len(rendered)] = "0"
  THEN StripZeros(SubSeq(rendered, 1, Len(rendered) - 1))
  ELSE rendered

\* format_gcode_number: {:.3} rounds to thousandths (up tells which way a
\* value half-way between two of them goes, which the binary value of the
\* f64 decides), then the trailing zeros and a trailing point are removed
\* and "-0" becomes "0".
FormatGcodeNumber(value, up) ==
  LET magnitude == IF value < 0 THEN -value ELSE value
      thousandths ==
        magnitude \div 10
          + ( IF magnitude % 10 > 5 \/ (magnitude % 10 = 5 /\ up)
              THEN 1 ELSE 0 )
      rendered ==
        ( IF value < 0 THEN <<"-">> ELSE <<>> )
          \o Digits(thousandths \div 1000) \o <<".">>
          \o <<DigitChars[((thousandths \div 100) % 10) + 1],
               DigitChars[((thousandths \div 10) % 10) + 1],
               DigitChars[(thousandths % 10) + 1]>>
      stripped == StripZeros(rendered)
      pointless == IF stripped[Len(stripped)] = "."
                   THEN SubSeq(stripped, 1, Len(stripped) - 1)
                   ELSE stripped
  IN IF pointless = <<"-", "0">> THEN <<"0">> ELSE pointless

\* The G1 line of motion_gcode; the five lines around it are fixed text.
MotionGcode(axis, distance, feed_rate, up) ==
  <<"G", "1", " ", axis>> \o FormatGcodeNumber(distance, up)
    \o <<" ", "F">> \o Digits(feed_rate)

\* The arm of to_payload for Move.
MovePayload(request, up) ==
  MotionGcode(request.axis, SanitizeDistance(request.distance),
              SanitizeFeedRate(
                IF request.feed_rate = None
                THEN DefaultFeedRate(request.axis)
                ELSE request.feed_rate[1]),
              up)

MoveNone == [ request |-> None, line |-> <<>> ]

GcodeInit == moveCmd = MoveNone

GcodeIdle == GcodeInit

\* A Move command is turned into its payload.
MoveToPayload ==
  \E axis \in MotionAxes, distance \in Distances, feed_rate \in FeedRates,
     up \in BOOLEAN :
    LET request == [ axis |-> axis, distance |-> distance,
                     feed_rate |-> feed_rate ]
    IN moveCmd' = [ request |-> Some(request),
                    line |-> MovePayload(request, up) ]


(***************************************************************************)
(* The handshake under back-pressure (rtsp/client.rs, rtsp/pipeline.rs):   *)
(* start awaits its responses while the reader task feeds the interleaved  *)
(* queue, which run_session reads only after start has returned.  The      *)
(* stream is followed by counts: the interleaved frames ahead of the next  *)
(* response, that response, and the frames behind it.                      *)
(***************************************************************************)
VARIABLES
  hsStart,    \* RtspClient::start and run_session: position and method
  hsReader,   \* reader_loop: reading, or sending a packet into the queue
  hsWire,     \* what the server has sent and the reader has not yet read
  hsQueue     \* the packets in the interleaved mpsc channel

hsVars == <<hsStart, hsReader, hsWire, hsQueue>>

\* Bound: the interleaved frames the server sends on the connection.
MaxBurst == 65

HsStartNew == [ pc |-> "await", method |-> "DESCRIBE", delivered |-> FALSE ]

HsWireNew == [ ahead |-> 0, response |-> FALSE, behind |-> 0, frames |-> 0 ]

HsInit ==
  /\ hsStart = HsStartNew
  /\ hsReader = "read"
  /\ hsWire = HsWireNew
  /\ hsQueue = 0

HsIdle == HsInit

\* The server sends an interleaved frame; nothing in the code keeps a
\* server from doing so before it answers.
HsServerFrame ==
  /\ hsWire.frames < MaxBurst
  /\ hsWire' = [ hsWire EXCEPT
                   !.frames = @ + 1,
                   !.ahead = IF hsWire.response THEN @ ELSE @ + 1,
                   !.behind = IF hsWire.response THEN @ + 1 ELSE @ ]
  /\ UNCHANGED <<hsStart, hsReader, hsQueue>>

\* The server answers the request start is waiting for.
HsServerRespond ==
  /\ hsStart.pc = "await"
  /\ ~hsStart.delivered
  /\ ~hsWire.response
  /\ hsWire' = [ hsWire EXCEPT !.response = TRUE ]
  /\ UNCHANGED <<hsStart, hsReader, hsQueue>>

\* reader_loop reads and takes the next event: an interleaved frame, which
\* it goes on to send into the queue, or the response, which it hands to
\* the waiting request.
HsReaderRead ==
  /\ hsReader = "read"
  /\ IF hsWire.ahead > 0
     THEN /\ hsWire' = [ hsWire EXCEPT !.ahead = @ - 1 ]
          /\ hsReader' = "send"
          /\ hsStart' = hsStart
     ELSE /\ hsWire.response
          /\ hsWire' = [ hsWire EXCEPT !.response = FALSE,
                                       !.ahead = hsWire.behind,
                                       !.behind = 0 ]
          /\ hsReader' = "read"
          /\ hsStart' = [ hsStart EXCEPT !.delivered = TRUE ]
  /\ UNCHANGED hsQueue

\* interleaved_tx.send(..).await completes when the channel has a free slot.
HasPermit(items) == items < INTERLEAVED_CAPACITY

HsReaderSend ==
  /\ hsReader = "send"
  /\ HasPermit(hsQueue)
  /\ hsQueue' = hsQueue + 1
  /\ hsReader' = "read"
  /\ UNCHANGED <<hsStart, hsWire>>

\* rx.await of send_request completes: start sends the next request of the
\* handshake, or returns after PLAY and run_session enters its recv loop.
HsStartResume ==
  /\ hsStart.pc = "await"
  /\ hsStart.delivered
  /\ hsStart' = IF hsStart.method = "PLAY"
                THEN [ pc |-> "streaming", method |-> "NONE",
                       delivered |-> FALSE ]
                ELSE [ pc |-> "await",
                       method |-> NextMethod(hsStart.method),
                       delivered |-> FALSE ]
  /\ UNCHANGED <<hsReader, hsWire, hsQueue>>

\* session.interleaved_rx.recv() of run_session takes a packet.
HsRecv ==
  /\ hsStart.pc = "streaming"
  /\ hsQueue > 0
  /\ hsQueue' = hsQueue - 1
  /\ UNCHANGED <<hsStart, hsReader, hsWire>>


(***************************************************************************)
(* The MQTT task and the request queue of its client (mqtt.rs).  The       *)
(* AsyncClient of rumqttc hands every request to its event loop through a  *)
(* bounded channel: publish and subscribe wait while the channel is full,  *)
(* and one call of poll takes one request from it and writes it to the     *)
(* connection.  A command is "followed" when it is the command the observer  *)
(* follows and "command" otherwise.                                        *)
(***************************************************************************)
VARIABLES
  rqTask,     \* mqtt::run: its position and the command it is publishing
  rqClient,   \* the client of the current connection: its request channel
  rqHttp,     \* state.connected and the mpsc channel of accepted commands
  rqObs       \* observer: the fate of the followed command

rqVars == <<rqTask, rqClient, rqHttp, rqObs>>

\* AsyncClient::new(mqtt_options, 10).
REQUEST_CAPACITY == 10

RqTaskNew == [ pc |-> "subscribe", held |-> None ]

\* up: the event loop holds a connection that has seen its CONNACK.
RqClientNew == [ requests |-> <<>>, up |-> FALSE ]

RqObsNew == [ picked |-> FALSE, transmitted |-> 0, dropped |-> FALSE ]

RqInit ==
  /\ rqTask = RqTaskNew
  /\ rqClient = RqClientNew
  /\ rqHttp = [ connected |-> FALSE, commands |-> <<>> ]
  /\ rqObs = RqObsNew

RqIdle == RqInit

\* The followed command is among the requests.
Holds(requests) == \E i \in 1..Len(requests) : requests[i] = "followed"

\* The head of the outer loop: a new client and event loop replace the old
\* ones, whose requests go with them, and SUBSCRIBE is the first request of
\* the new channel.
RqSubscribe ==
  /\ rqTask.pc = "subscribe"
  /\ rqClient' = [ requests |-> <<"subscribe">>, up |-> FALSE ]
  /\ rqObs' = [ rqObs EXCEPT !.dropped = @ \/ Holds(rqClient.requests) ]
  /\ rqTask' = [ rqTask EXCEPT !.pc = "loop" ]
  /\ UNCHANGED rqHttp

\* eventloop.poll() connects and yields CONNACK.
RqConnAck ==
  /\ rqTask.pc = "loop"
  /\ ~rqClient.up
  /\ rqClient' = [ rqClient EXCEPT !.up = TRUE ]
  /\ rqHttp' = [ rqHttp EXCEPT !.connected = TRUE ]
  /\ UNCHANGED <<rqTask, rqObs>>

\* eventloop.poll() takes the next request and writes it to the broker.
RqOutgoing ==
  /\ rqTask.pc = "loop"
  /\ rqClient.up
  /\ rqClient.requests # <<>>
  /\ rqClient' = [ rqClient EXCEPT !.requests = Tail(@) ]
  /\ rqObs' = [ rqObs EXCEPT
                  !.transmitted = IF Head(rqClient.requests) = "followed"
                                  THEN @ + 1 ELSE @ ]
  /\ UNCHANGED <<rqTask, rqHttp>>

\* eventloop.poll() yields an error: the connection failed or was lost.
RqError ==
  /\ rqTask.pc = "loop"
  /\ rqHttp' = [ rqHttp EXCEPT !.connected = FALSE ]
  /\ rqTask' = [ rqTask EXCEPT !.pc = "sleep" ]
  /\ UNCHANGED <<rqClient, rqObs>>

\* sleep(Duration::from_secs(2)) is over.
RqWake ==
  /\ rqTask.pc = "sleep"
  /\ rqTask' = [ rqTask EXCEPT !.pc = "subscribe" ]
  /\ UNCHANGED <<rqClient, rqHttp, rqObs>>

\* command_rx.recv() yields a command: the payload is built and
\* client.publish is called.
RqCommand ==
  /\ rqTask.pc = "loop"
  /\ rqHttp.commands # <<>>
  /\ rqTask' = [ pc |-> "publish", held |-> Some(Head(rqHttp.commands)) ]
  /\ rqHttp' = [ rqHttp EXCEPT !.commands = Tail(@) ]
  /\ UNCHANGED <<rqClient, rqObs>>

\* The send of publish completes when the request channel has room.
HasRoom(requests) == Len(requests) < REQUEST_CAPACITY

\* client.publish(..).await returns: the request is in the channel and the
\* task is back at its select.
RqPublish ==
  /\ rqTask.pc = "publish"
  /\ HasRoom(rqClient.requests)
  /\ rqClient' = [ rqClient EXCEPT
                     !.requests = Append(@, rqTask.held[1]) ]
  /\ rqTask' = [ pc |-> "loop", held |-> None ]
  /\ UNCHANGED <<rqHttp, rqObs>>

\* post_command of a connected device queues a command and answers 200; the
\* observer may pick it.
RqPost ==
  /\ rqHttp.connected
  /\ Len(rqHttp.commands) < COMMAND_CAPACITY
  /\ \E command \in {"command", "followed"} :
       /\ command = "followed" => ~rqObs.picked
       /\ rqHttp' = [ rqHttp EXCEPT !.commands = Append(@, command) ]
       /\ rqObs' = [ rqObs EXCEPT !.picked = @ \/ command = "followed" ]
  /\ UNCHANGED <<rqTask, rqClient>>


(***************************************************************************)
(* The specifications: one per component, the other components at rest.    *)
(***************************************************************************)
\* The components of the HTTP and MQTT side.
serviceVars == <<reloadVars, mqttVars, authVars, parserVars, kaVars,
  timeVars, rangeVars, reportVars, gcodeVars, hsVars, rqVars>>

ServiceIdle == ReloadIdle /\ MqttIdle /\ AuthIdle /\ ParserIdle /\
  KaIdle /\ TimeIdle /\ RangeIdle /\ ReportIdle /\ GcodeIdle /\ HsIdle /\
  RqIdle

vars == <<depVars, stapVars, cmafVars, connVars, supVars, serviceVars>>

DepNext ==
  \/ DepHandle
       /\ UNCHANGED <<stapVars, cmafVars, connVars, supVars, serviceVars>>
  \/ DepTake
       /\ UNCHANGED <<stapVars, cmafVars, connVars, supVars, serviceVars>>

InitDep ==
  DepInit /\ StapIdle /\ CmafIdle /\ ConnIdle /\ SupIdle /\ ServiceIdle

SpecDep == InitDep /\ [][DepNext]_vars

StapNext ==
  \/ StapFeedAggregate /\ UNCHANGED <<depVars, cmafVars, connVars, supVars,
                                    serviceVars>>
  \/ StapFeedSingle /\ UNCHANGED <<depVars, cmafVars, connVars, supVars,
                                    serviceVars>>

InitStap ==
  DepInit /\ StapInit /\ CmafIdle /\ ConnIdle /\ SupIdle /\ ServiceIdle

SpecStap == InitStap /\ [][StapNext]_vars

CmafNext ==
  \/ CmafSessionStart /\ UNCHANGED <<depVars, stapVars, connVars, supVars,
                                     serviceVars>>
  \/ CmafSetParameterSets
       /\ UNCHANGED <<depVars, stapVars, connVars, supVars,
                                     serviceVars>>
  \/ CmafPush /\ UNCHANGED <<depVars, stapVars, connVars, supVars,
                                     serviceVars>>
  \/ CmafSessionEnd /\ UNCHANGED <<depVars, stapVars, connVars, supVars,
                                     serviceVars>>
  \/ CmafRespawn /\ UNCHANGED <<depVars, stapVars, connVars, supVars,
                                     serviceVars>>

InitCmaf ==
  DepInit /\ StapIdle /\ CmafInit /\ ConnIdle /\ SupIdle /\ ServiceIdle

SpecCmaf == InitCmaf /\ [][CmafNext]_vars

ConnRest == <<depVars, stapVars, cmafVars, supVars, serviceVars>>

ConnNext ==
  \/ RunnerConnect /\ UNCHANGED ConnRest
  \/ RunnerSend /\ UNCHANGED ConnRest
  \/ RunnerAwait /\ UNCHANGED ConnRest
  \/ RunnerRecv /\ UNCHANGED ConnRest
  \/ RunnerStreamEnd /\ UNCHANGED ConnRest
  \/ RunnerBackoff /\ UNCHANGED ConnRest
  \/ ReaderEvent /\ UNCHANGED ConnRest
  \/ ReaderEof /\ UNCHANGED ConnRest
  \/ KeepaliveSend /\ UNCHANGED ConnRest
  \/ KeepaliveAwait /\ UNCHANGED ConnRest
  \/ ServerRespond /\ UNCHANGED ConnRest
  \/ ServerFrame /\ UNCHANGED ConnRest
  \/ ServerClose /\ UNCHANGED ConnRest
  \/ RuntimeShutdown /\ UNCHANGED ConnRest

InitConn ==
  DepInit /\ StapIdle /\ CmafIdle /\ ConnInit /\ SupIdle /\ ServiceIdle

SpecConn == InitConn /\ [][ConnNext]_vars

\* The tokio scheduler runs every task that can take a step; the server
\* answers the requests it has received.
FairConn ==
  /\ SpecConn
  /\ WF_vars(RunnerStep /\ UNCHANGED ConnRest)
  /\ WF_vars(ReaderStep /\ UNCHANGED ConnRest)
  /\ WF_vars(KeepaliveStep /\ UNCHANGED ConnRest)
  /\ WF_vars(ServerRespond /\ UNCHANGED ConnRest)

SupRest == <<depVars, stapVars, cmafVars, connVars, serviceVars>>

SupNext ==
  \/ HandlerStart /\ UNCHANGED SupRest
  \/ HandlerSpawn /\ UNCHANGED SupRest
  \/ HandlerInsert /\ UNCHANGED SupRest
  \/ HandlerRemove /\ UNCHANGED SupRest
  \/ HandlerRemoveDir /\ UNCHANGED SupRest
  \/ HandlerRespond /\ UNCHANGED SupRest
  \/ TaskResolve /\ UNCHANGED SupRest
  \/ TaskClean /\ UNCHANGED SupRest
  \/ TaskSegmenterNew /\ UNCHANGED SupRest
  \/ TaskWrite /\ UNCHANGED SupRest
  \/ TaskSessionEnd /\ UNCHANGED SupRest
  \/ TaskBackoff /\ UNCHANGED SupRest

InitSup ==
  DepInit /\ StapIdle /\ CmafIdle /\ ConnIdle /\ SupInit /\ ServiceIdle

SpecSup == InitSup /\ [][SupNext]_vars

coreVars == <<depVars, stapVars, cmafVars, connVars, supVars>>

CoreIdle == DepInit /\ StapIdle /\ CmafIdle /\ ConnIdle /\ SupIdle

ReloadRest == <<coreVars, mqttVars, authVars, parserVars, kaVars, timeVars,
  rangeVars, reportVars, gcodeVars, hsVars, rqVars>>

ReloadNext ==
  \/ WriterFlushPart /\ UNCHANGED ReloadRest
  \/ WriterFinalize /\ UNCHANGED ReloadRest
  \/ WriterPurge /\ UNCHANGED ReloadRest
  \/ ReloadGet /\ UNCHANGED ReloadRest
  \/ ReloadPoll /\ UNCHANGED ReloadRest
  \/ ReloadSleep /\ UNCHANGED ReloadRest

InitReload ==
  CoreIdle /\ ReloadInit /\ MqttIdle /\ AuthIdle /\
  ParserIdle /\ KaIdle /\ TimeIdle /\ RangeIdle /\ ReportIdle /\
  GcodeIdle /\ HsIdle /\ RqIdle

SpecReload == InitReload /\ [][ReloadNext]_vars

MqttRest == <<coreVars, reloadVars, authVars, parserVars, kaVars, timeVars,
  rangeVars, reportVars, gcodeVars, hsVars, rqVars>>

MqttNext ==
  \/ MqttSubscribe /\ UNCHANGED MqttRest
  \/ MqttConnAck /\ UNCHANGED MqttRest
  \/ MqttReport /\ UNCHANGED MqttRest
  \/ MqttError /\ UNCHANGED MqttRest
  \/ MqttWake /\ UNCHANGED MqttRest
  \/ MqttCommand /\ UNCHANGED MqttRest
  \/ MqttAbort /\ UNCHANGED MqttRest
  \/ PostStart /\ UNCHANGED MqttRest
  \/ PostCheck /\ UNCHANGED MqttRest
  \/ PostSend /\ UNCHANGED MqttRest

InitMqtt ==
  CoreIdle /\ ReloadIdle /\ MqttInit /\ AuthIdle /\
  ParserIdle /\ KaIdle /\ TimeIdle /\ RangeIdle /\ ReportIdle /\
  GcodeIdle /\ HsIdle /\ RqIdle

SpecMqtt == InitMqtt /\ [][MqttNext]_vars

AuthRest == <<coreVars, reloadVars, mqttVars, parserVars, kaVars, timeVars,
  rangeVars, reportVars, gcodeVars, hsVars, rqVars>>

AuthNext ==
  \/ AuthUpdateChallenge /\ UNCHANGED AuthRest
  \/ AuthAuthorize /\ UNCHANGED AuthRest

InitAuth ==
  CoreIdle /\ ReloadIdle /\ MqttIdle /\ AuthInit /\
  ParserIdle /\ KaIdle /\ TimeIdle /\ RangeIdle /\ ReportIdle /\
  GcodeIdle /\ HsIdle /\ RqIdle

SpecAuth == InitAuth /\ [][AuthNext]_vars

ParserRest == <<coreVars, reloadVars, mqttVars, authVars, kaVars, timeVars,
  rangeVars, reportVars, gcodeVars, hsVars, rqVars>>

ParserNext ==
  ReaderRead /\ UNCHANGED ParserRest

InitParser ==
  CoreIdle /\ ReloadIdle /\ MqttIdle /\ AuthIdle /\
  ParserInit /\ KaIdle /\ TimeIdle /\ RangeIdle /\ ReportIdle /\
  GcodeIdle /\ HsIdle /\ RqIdle

SpecParser == InitParser /\ [][ParserNext]_vars

KaRest == <<coreVars, reloadVars, mqttVars, authVars, parserVars, timeVars,
  rangeVars, reportVars, gcodeVars, hsVars, rqVars>>

KaNext ==
  \/ SessionResponse /\ UNCHANGED KaRest
  \/ StartKeepalive /\ UNCHANGED KaRest
  \/ SessionReconnect /\ UNCHANGED KaRest

InitKa ==
  CoreIdle /\ ReloadIdle /\ MqttIdle /\ AuthIdle /\ ParserIdle /\
  KaInit /\ TimeIdle /\ RangeIdle /\ ReportIdle /\ GcodeIdle /\ HsIdle /\
  RqIdle

SpecKa == InitKa /\ [][KaNext]_vars

TimeRest == <<coreVars, reloadVars, mqttVars, authVars, parserVars, kaVars,
  rangeVars, reportVars, gcodeVars, hsVars, rqVars>>

TimeNext ==
  \/ PtsFirst /\ UNCHANGED TimeRest
  \/ PtsNext /\ UNCHANGED TimeRest
  \/ PtsSessionEnd /\ UNCHANGED TimeRest

InitTime ==
  CoreIdle /\ ReloadIdle /\ MqttIdle /\ AuthIdle /\
  ParserIdle /\ KaIdle /\ TimeInit /\ RangeIdle /\ ReportIdle /\
  GcodeIdle /\ HsIdle /\ RqIdle

SpecTime == InitTime /\ [][TimeNext]_vars

RangeRest == <<coreVars, reloadVars, mqttVars, authVars, parserVars,
  kaVars, timeVars, reportVars, gcodeVars, hsVars, rqVars>>

RangeNext ==
  \/ SegmentAppend /\ UNCHANGED RangeRest
  \/ SegmentRemove /\ UNCHANGED RangeRest
  \/ RangeGet /\ UNCHANGED RangeRest
  \/ RangeCheck /\ UNCHANGED RangeRest
  \/ RangeTick /\ UNCHANGED RangeRest
  \/ RangeWake /\ UNCHANGED RangeRest

InitRange ==
  CoreIdle /\ ReloadIdle /\ MqttIdle /\ AuthIdle /\
  ParserIdle /\ KaIdle /\ TimeIdle /\ RangeInit /\ ReportIdle /\
  GcodeIdle /\ HsIdle /\ RqIdle

SpecRange == InitRange /\ [][RangeNext]_vars

ReportRest == <<coreVars, reloadVars, mqttVars, authVars, parserVars,
  kaVars, timeVars, rangeVars, gcodeVars, hsVars, rqVars>>

ReportNext ==
  \/ ReportApply /\ UNCHANGED ReportRest
  \/ ReportRepeat /\ UNCHANGED ReportRest

InitReport ==
  CoreIdle /\ ReloadIdle /\ MqttIdle /\ AuthIdle /\
  ParserIdle /\ KaIdle /\ TimeIdle /\ RangeIdle /\ ReportInit /\
  GcodeIdle /\ HsIdle /\ RqIdle

SpecReport == InitReport /\ [][ReportNext]_vars

GcodeRest == <<coreVars, reloadVars, mqttVars, authVars, parserVars,
  kaVars, timeVars, rangeVars, reportVars, hsVars, rqVars>>

GcodeNext ==
  MoveToPayload /\ UNCHANGED GcodeRest

InitGcode ==
  CoreIdle /\ ReloadIdle /\ MqttIdle /\ AuthIdle /\
  ParserIdle /\ KaIdle /\ TimeIdle /\ RangeIdle /\ ReportIdle /\
  GcodeInit /\ HsIdle /\ RqIdle

SpecGcode == InitGcode /\ [][GcodeNext]_vars

HsRest == <<coreVars, reloadVars, mqttVars, authVars, parserVars, kaVars,
  timeVars, rangeVars, reportVars, gcodeVars, rqVars>>

HsNext ==
  \/ HsServerFrame /\ UNCHANGED HsRest
  \/ HsServerRespond /\ UNCHANGED HsRest
  \/ HsReaderRead /\ UNCHANGED HsRest
  \/ HsReaderSend /\ UNCHANGED HsRest
  \/ HsStartResume /\ UNCHANGED HsRest
  \/ HsRecv /\ UNCHANGED HsRest

InitHs ==
  CoreIdle /\ ReloadIdle /\ MqttIdle /\ AuthIdle /\ ParserIdle /\
  KaIdle /\ TimeIdle /\ RangeIdle /\ ReportIdle /\ GcodeIdle /\ HsInit /\
  RqIdle

SpecHs == InitHs /\ [][HsNext]_vars

RqRest == <<coreVars, reloadVars, mqttVars, authVars, parserVars, kaVars,
  timeVars, rangeVars, reportVars, gcodeVars, hsVars>>

RqNext ==
  \/ RqSubscribe /\ UNCHANGED RqRest
  \/ RqConnAck /\ UNCHANGED RqRest
  \/ RqOutgoing /\ UNCHANGED RqRest
  \/ RqError /\ UNCHANGED RqRest
  \/ RqWake /\ UNCHANGED RqRest
  \/ RqCommand /\ UNCHANGED RqRest
  \/ RqPublish /\ UNCHANGED RqRest
  \/ RqPost /\ UNCHANGED RqRest

InitRq ==
  CoreIdle /\ ReloadIdle /\ MqttIdle /\ AuthIdle /\ ParserIdle /\ KaIdle /\
  TimeIdle /\ RangeIdle /\ ReportIdle /\ GcodeIdle /\ HsIdle /\ RqInit

SpecRq == InitRq /\ [][RqNext]_vars


(***************************************************************************)
(* Properties of the segmenter (SpecCmaf)                                  *)
(***************************************************************************)
\* The parts of a list lie end to end from byte 0.
Tiles(parts) ==
  \A i \in 1..Len(parts) :
    parts[i].byte_start =
      IF i = 1 THEN 0 ELSE parts[i - 1].byte_start + parts[i - 1].byte_length

RECURSIVE PartsTotal(_)
PartsTotal(parts) ==
  IF parts = <<>> THEN 0
  ELSE Head(parts).byte_length + PartsTotal(Tail(parts))

\* C4: the parts recorded for a segment tile its file: the first part starts
\* at byte 0, every next part starts where the one before ends, and the
\* lengths sum to the bytes written to the file, for the segment in progress
\* (bytes_written, which is the length of the file) and for every finalized
\* segment of the window.
C4_PartsTileSegment ==
  seg # None =>
    /\ \A i \in 1..Len(seg[1].segments) :
         LET info == seg[1].segments[i]
         IN /\ Tiles(info.parts)
            /\ PartsTotal(info.parts) = FileLen(SegFile(dir, info.seq))
    /\ seg[1].current # None =>
         LET current == seg[1].current[1]
         IN /\ Tiles(current.parts)
            /\ PartsTotal(current.parts) = current.bytes_written
            /\ current.bytes_written = FileLen(SegFile(dir, current.seq))

\* A finalized segment of two parts or more next to a segment in progress
\* that has a part of its own.
C4_Witness ==
  /\ seg # None
  /\ \E i \in 1..Len(seg[1].segments) : Len(seg[1].segments[i].parts) >= 2
  /\ seg[1].current # None
  /\ seg[1].current[1].parts # <<>>

\* C5: between two successive writes of stream.m3u8 in one session the
\* EXT-X-MEDIA-SEQUENCE never decreases and grows by at most 1, whatever the
\* configured window.
C5_MediaSequenceSteps ==
  (cmafObs.plPrev # None /\ cmafObs.plLast # None) =>
    /\ cmafObs.plLast[1] >= cmafObs.plPrev[1]
    /\ cmafObs.plLast[1] - cmafObs.plPrev[1] <= 1

\* C9: no access unit that comes before the first IDR of a session is kept,
\* and the first sample of every segment is an IDR: no segment took a
\* non-IDR unit as its first frame and the first part of every segment is
\* independent.
C9_SegmentsStartWithIdr ==
  /\ cmafObs.preIdrKept = 0
  /\ cmafObs.nonIdrFirst = {}
  /\ seg # None =>
       /\ \A i \in 1..Len(seg[1].segments) :
            seg[1].segments[i].parts # <<>> =>
              seg[1].segments[i].parts[1].independent
       /\ (seg[1].current # None /\ seg[1].current[1].parts # <<>>) =>
            seg[1].current[1].parts[1].independent
       /\ (seg[1].current # None /\ seg[1].current[1].part_samples # <<>>
             /\ seg[1].current[1].parts = <<>>) =>
            seg[1].current[1].part_samples[1].is_idr

\* Units were discarded before the first IDR, and a segment was finalized
\* since.
C9_Witness ==
  /\ cmafObs.dropped > 0
  /\ seg # None
  /\ seg[1].segments # <<>>

\* C10 as stated: over the life of the device's runtime every part has a
\* greater mfhd sequence number and a greater fragment seq than the part
\* before it.
C10_AlwaysIncreasing ==
  cmafObs.prevPart # None =>
    /\ cmafObs.lastPart[1].mfhd > cmafObs.prevPart[1].mfhd
    /\ cmafObs.lastPart[1].seq > cmafObs.prevPart[1].seq

\* C10 amended: the fragment seq of the runtime's stream grows with every
\* part; the mfhd sequence number grows from part to part within one
\* session; and the parts appended to the segment files are, in order, the
\* parts broadcast, the last of which may have failed to reach the file.
C10_IncreasingWithinSession ==
  /\ cmafObs.prevPart # None =>
       /\ cmafObs.lastPart[1].seq > cmafObs.prevPart[1].seq
       /\ cmafObs.lastPart[1].session = cmafObs.prevPart[1].session =>
            cmafObs.lastPart[1].mfhd > cmafObs.prevPart[1].mfhd
  /\ Len(cmafObs.written) <= Len(cmafObs.sent)
  /\ Len(cmafObs.sent) - Len(cmafObs.written) <= 1
  /\ cmafObs.written = SubSeq(cmafObs.sent, 1, Len(cmafObs.written))

\* Two parts in a row of one session, and earlier a part of the session
\* before.
C10_Witness ==
  /\ cmafObs.prevPart # None
  /\ cmafObs.lastPart[1].session = 2
  /\ cmafObs.prevPart[1].session = 2
  /\ Len(cmafObs.written) >= 2


(***************************************************************************)
(* Properties of the depacketizer (SpecDep, SpecStap)                      *)
(***************************************************************************)
\* C6 as stated: a run of packets that starts with no access unit in
\* progress, shares one timestamp T and carries the marker bit on its last
\* packet only, makes the depacketizer emit exactly one access unit, with
\* rtp_timestamp T.
C6_ExactlyOneUnit ==
  depRun.closed => depRun.emitted = <<depRun.ts>>

\* C6 amended: such a run emits exactly one access unit, with rtp_timestamp
\* T, when at least one NAL was extracted from its packets, and none when no
\* packet yielded a NAL (the unit staying below MAX_ACCESS_UNIT_BYTES).
C6_OneUnitIfAnyNal ==
  (depRun.closed /\ depRun.bytes < MAX_ACCESS_UNIT_BYTES) =>
    depRun.emitted = IF depRun.nals > 0 THEN <<depRun.ts>> ELSE <<>>

\* A run of two packets or more that yielded NALs and ended with the marker.
C6_Witness ==
  /\ depRun.closed
  /\ depRun.packets >= 2
  /\ depRun.nals >= 2
  /\ depRun.emitted = <<depRun.ts>>

\* C7: when an FU-A continuation or end fragment does not carry the sequence
\* number that follows the previous fragment's (mod 2^16), the reassembly
\* buffer is dropped, no NAL comes out of the rest of that series, and
\* reassembly resumes only at the next Start fragment.
C7_FuGapDropsSeries ==
  /\ ~depFu.leaked
  /\ depFu.broken => dep.fu_buffer = None

\* A series was broken by a gap and a later Start fragment opened a new one.
C7_Witness ==
  /\ depFu.gaps > 0
  /\ ~depFu.broken
  /\ dep.fu_buffer # None

\* C8: on a fresh depacketizer a STAP-A packet aggregating [A, B, C] with the
\* marker bit yields what three single-NAL packets A, B, C of the same
\* timestamp, the marker on the last, yield: the same access units, with
\* the same NAL list, rtp_timestamp and is_idr.
C8_StapLikeSingles ==
  (stapPc.a = 1 /\ stapPc.b = 3) =>
    /\ stapA.output = stapB.output
    /\ Len(stapA.output) = 1
    /\ stapA.output[1].nals = <<stapIn.nals[1], stapIn.nals[2],
                                stapIn.nals[3]>>
    /\ stapA.output[1].rtp_timestamp = stapIn.timestamp

\* Both deliveries are over for an aggregate that holds an IDR slice.
C8_Witness ==
  /\ stapPc.a = 1
  /\ stapPc.b = 3
  /\ Len(stapA.output) = 1
  /\ stapA.output[1].is_idr
  /\ stapIn.nals[3] = NalIdr


(***************************************************************************)
(* Properties of the RTSP connection (FairConn) and of the supervisor      *)
(* (SpecSup)                                                               *)
(***************************************************************************)
\* C1: when the reader reaches the end of the stream while a request of the
\* handshake is awaiting its response, the request completes with an error,
\* the session ends and the runner goes to its 2 s sleep before the next
\* connection (or is shut down meanwhile).
C1_EofFailsAwaitedRequest ==
  (conn.reader = "done" /\ runner.pc = "await")
    ~> (runner.pc = "sleep" \/ runner.pc = "aborted")

\* The reader has ended and the runner still awaits a response that no
\* task can deliver any more.
C1_Stuck ==
  /\ conn.reader = "done"
  /\ runner.pc = "await"
  /\ AwaitOutcome(conn, runner.wait) = "waiting"

\* C2: after PrinterRuntime::shutdown every task of the runtime eventually
\* stops; for the tasks of the current connection: once the runner is
\* aborted and the reader has ended, the keep-alive task ends too.
C2_TasksStopAfterShutdown ==
  (runner.pc = "aborted" /\ conn.reader = "done")
    ~> (conn.keepalive = "none" \/ conn.keepalive = "done")

\* The runtime is shut down, the reader is gone, and the keep-alive task
\* awaits the response to an OPTIONS request.
C2_Orphan ==
  /\ runner.pc = "aborted"
  /\ conn.reader = "done"
  /\ conn.keepalive = "await"
  /\ AwaitOutcome(conn, conn.kaWait) = "waiting"

\* C3: at any time at most one running fragmenter task has written to or
\* purged the output directory of the device.
C3_OneFragmenter == Cardinality(supDir.writers) <= 1

\* update_printer has its new runtime spawned while the runtime it replaces
\* is still in the map, running, with files of its own in the directory.
C3_Overlap ==
  /\ printers # 0
  /\ printers \in supDir.writers
  /\ \E h \in handlers : h.kind = "update" /\ h.pc = "insert"
                            /\ h.rt \in supDir.writers


(***************************************************************************)
(* Properties of a restarted video pipeline (SpecCmaf)                     *)
(***************************************************************************)
\* The playlist file lists only segments whose files hold parts of the
\* session in progress (or of the last session, between two sessions), and
\* a session that has not written a playlist yet has none on disk.
PlaylistOfSession ==
  /\ dir.playlist # None =>
       \A i \in 1..Len(dir.playlist[1].listed) :
         LET entry == dir.playlist[1].listed[i]
             file == SegFile(dir, entry.seq)
         IN /\ file.exists
            /\ Len(file.parts) = entry.parts
            /\ \A j \in 1..Len(file.parts) :
                 file.parts[j].session = cmafObs.session
  /\ (seg # None /\ cmafObs.plLast = None) => dir.playlist = None

RespawnedFirstPart ==
  /\ cmafObs.session = 2
  /\ cmafObs.before = 0
  /\ cmafObs.first # None
  /\ cmafObs.first[1].seq = 1


(***************************************************************************)
(* Properties of the sliding window (SpecCmaf)                             *)
(***************************************************************************)
\* The retained segments after the last finalization of the session: at most
\* the window, consecutive ascending sequence numbers, and no file left of
\* an earlier segment that is not retained.
WindowKept ==
  LET segments == seg[1].segments
      retained == { segments[i].seq : i \in 1..Len(segments) }
  IN /\ Len(segments) <= seg[1].window
     /\ \A i \in 1..(Len(segments) - 1) :
          segments[i + 1].seq = segments[i].seq + 1
     /\ \A seq \in 0..cmafObs.finalized[1] :
          seq \notin retained => ~SegFile(dir, seq).exists

\* C12: after every segment finalization at most W completed segments are
\* retained, their sequence numbers are consecutive and ascending and end at
\* the segment just finalized, and the file of every segment evicted from
\* the window has been unlinked.
C12_WindowAfterFinalize ==
  (seg # None /\ cmafObs.finalized # None) =>
    /\ WindowKept
    /\ seg[1].segments # <<>>
    /\ seg[1].segments[Len(seg[1].segments)].seq = cmafObs.finalized[1]

\* The same with a window of at least one segment.
WindowAfterFinalizePositive ==
  cmafCfg.window >= 1 => C12_WindowAfterFinalize

\* With a window of 0 the segment just finalized is evicted at once.
WindowZeroKeepsNothing ==
  (seg # None /\ cmafObs.finalized # None /\ cmafCfg.window = 0) =>
    /\ WindowKept
    /\ seg[1].segments = <<>>

\* A segment was finalized with a window of 0: none is retained and its file
\* is gone.
C12_Witness ==
  /\ seg # None
  /\ cmafCfg.window = 0
  /\ cmafObs.finalized # None
  /\ seg[1].segments = <<>>
  /\ ~SegFile(dir, cmafObs.finalized[1]).exists

\* A segment was evicted from a window of one segment.
WindowSlid ==
  /\ seg # None
  /\ cmafCfg.window = 1
  /\ cmafObs.finalized = Some(1)


(***************************************************************************)
(* Properties of the blocking playlist reload (SpecReload)                 *)
(***************************************************************************)
\* No poll that found the deadline passed went back to sleep, and a request
\* still held is at most one poll past its deadline.
HeldWithinDeadline ==
  /\ ~reload.overslept
  /\ reload.pc \in {"poll", "sleep"} =>
       clock <= reload.deadline + ReloadPollMs
  /\ reload.answer # None =>
       reload.answer[1].at <= reload.deadline + ReloadPollMs

\* C13 as stated: a playlist GET with _HLS_msn is answered at the first poll
\* (every 200 ms) at which the playlist reports the request ready or the 5 s
\* deadline has passed, and never earlier; a GET without _HLS_msn is
\* answered immediately; every blocking request is answered within the
\* deadline plus one poll.
C13_AnsweredAtReadyOrDeadline ==
  /\ reload.answer # None =>
       IF reload.msn = None THEN reload.polls = 1
       ELSE \/ reload.answer[1].ready
            \/ reload.answer[1].at >= reload.deadline
  /\ HeldWithinDeadline

\* C13 amended: a poll that cannot read the playlist file answers 404 at
\* once, whether the request blocks or not; otherwise the request is
\* answered 200 as stated.
C13_AnsweredOrNotFound ==
  /\ reload.answer # None =>
       IF ~reload.answer[1].found THEN reload.answer[1].status = 404
       ELSE /\ reload.answer[1].status = 200
            /\ IF reload.msn = None THEN reload.polls = 1
               ELSE \/ reload.answer[1].ready
                    \/ reload.answer[1].at >= reload.deadline
  /\ HeldWithinDeadline

\* A blocking request was held over at least one poll and answered before
\* its deadline, when the playlist reported it ready.
C13_Witness ==
  /\ reload.answer # None
  /\ reload.msn # None
  /\ reload.polls >= 2
  /\ reload.answer[1].ready
  /\ reload.answer[1].at < reload.deadline

\* A blocking request was held until its deadline.
ReloadDeadlineAnswer ==
  /\ reload.answer # None
  /\ reload.answer[1].status = 200
  /\ ~reload.answer[1].ready
  /\ reload.answer[1].at = reload.deadline

\* A blocking request that was held lost the playlist file to a purge.
ReloadLostFile ==
  /\ reload.answer # None
  /\ reload.answer[1].status = 404
  /\ reload.polls >= 2

\* The playlist lists part part_index of segment msn, complete or in progress.
PartListed(playlist, msn, part_index) ==
  \E i \in 1..Len(playlist.listed) :
    /\ playlist.listed[i].seq = msn
    /\ playlist.listed[i].parts >= part_index + 1

\* msn is at most the sequence of the last complete segment of the playlist.
CompleteListed(playlist, msn) ==
  \E i \in 1..Len(playlist.listed) :
    /\ playlist.listed[i].complete
    /\ msn <= playlist.listed[i].seq

\* C14 as stated: the readiness test of a blocking reload holds exactly when
\* the playlist lists part P of segment M (at least P + 1 EXT-X-PART lines
\* for M, complete or in progress) or, when P is absent, when M is at most
\* the sequence of the last complete segment.
C14_ReadyIffListed ==
  reload.test # None =>
    ( reload.test[1].ready <=>
        IF reload.part = None
        THEN CompleteListed(reload.test[1].shown, reload.msn[1])
        ELSE PartListed(reload.test[1].shown, reload.msn[1],
                        reload.part[1]) )

\* C14 amended: the test also holds whenever M is below the media sequence
\* of the playlist, whatever P is.
C14_ReadyIffListedOrPast ==
  reload.test # None =>
    ( reload.test[1].ready <=>
        \/ reload.msn[1] < reload.test[1].shown.media_sequence
        \/ IF reload.part = None
           THEN CompleteListed(reload.test[1].shown, reload.msn[1])
           ELSE PartListed(reload.test[1].shown, reload.msn[1],
                           reload.part[1]) )

\* The example of the claim on a smaller scale: a request for part 1 of
\* segment 1 was held while a poll found it not ready, and a later poll
\* found it ready with the second part of segment 1 listed.
C14_Witness ==
  /\ reload.test # None
  /\ reload.msn = Some(1)
  /\ reload.part = Some(1)
  /\ reload.polls >= 2
  /\ reload.test[1].ready
  /\ PartListed(reload.test[1].shown, 1, 1)


(***************************************************************************)
(* Properties of the command queue and of the status watch (SpecMqtt)      *)
(***************************************************************************)
\* C15: a POST command for a registered device is answered 503 when the
\* handler read state.connected as false or found the command queue closed,
\* and 200 otherwise; a command answered 503 is never handed to the MQTT
\* task (it was not queued), a command answered 200 was queued.
C15_RejectedNeverHanded ==
  /\ followed.status # 0 =>
       /\ followed.status = 503 <=>
            (~followed.connected \/ followed.closed)
       /\ followed.status = 200 <=> followed.queued
       /\ followed.status \in {200, 503}
  /\ followed.handed => followed.status = 200

\* A command was answered 503 because the queue was closed, its handler
\* having read state.connected as true.
C15_Witness ==
  /\ followed.status = 503
  /\ followed.connected
  /\ followed.closed
  /\ ~followed.handed

\* A command answered 200 was handed to the MQTT task.
AcceptedHanded ==
  /\ followed.status = 200
  /\ followed.handed

\* C16: the command queue never holds more than 32 commands, and a POST
\* command that arrives while 32 commands are queued fails with 503 instead
\* of waiting for space in the queue.
C16_FullQueueRejects ==
  /\ Len(commands.items) <= COMMAND_CAPACITY
  /\ \A slot \in 1..MaxPosters : posts[slot].pc # "waiting"
  /\ followed.waited => followed.status \in {0, 503}

\* The bound alone.
QueueBounded == Len(commands.items) <= COMMAND_CAPACITY

\* A handler waits on the full queue of a connected device.
C16_Witness ==
  /\ Len(commands.items) = COMMAND_CAPACITY
  /\ ~commands.closed
  /\ \E slot \in 1..MaxPosters : posts[slot].pc = "waiting"

\* A command that waited on the full queue was queued and answered 200.
WaitedThenQueued ==
  /\ followed.waited
  /\ followed.status = 200

\* C17: every time the MQTT task changes the printer state (CONNACK, a
\* parsed report, a connection error) it publishes a clone of the resulting
\* state on the status broadcast: once the task has processed an event, the
\* value of the status watch is the state GET device state returns.
C17_WatchFollowsState ==
  statusWatch = printerState

\* The task has handled a CONNACK and a report, and the watch still holds
\* the default state.
C17_Witness ==
  /\ printerState.connected
  /\ printerState.reports > 0
  /\ statusWatch = PrinterStateDefault


(***************************************************************************)
(* Properties of the authentication retry (SpecConn)                       *)
(***************************************************************************)
\* A 401 whose challenge updated the authenticator.
Challenged(response) == response.status = 401 /\ response.challenge

\* C18: for one logical RTSP request a 401 whose challenge updates the
\* authenticator causes exactly one retry; when the retry is answered 401
\* too, that response goes to the caller and no third request is sent: at
\* most 2 requests are on the wire per logical request.
C18_OneRetryOn401 ==
  /\ runner.wire <= 2
  /\ Len(runner.log) <= runner.wire
  /\ runner.wire = 2 => Challenged(runner.log[1])
  /\ (runner.pc = "send" /\ runner.log # <<>>) =>
       /\ runner.wire = 1
       /\ Challenged(runner.log[1])
  /\ runner.result # None =>
       LET log == runner.result[1].log
       IN /\ Len(log) = runner.result[1].wire
          /\ Len(log) \in {1, 2}
          /\ Len(log) = 1 => ~Challenged(log[1])
          /\ Len(log) = 2 => Challenged(log[1])

\* A logical request was answered 401 with a challenge twice: the second
\* response went to the caller after two requests.
C18_Witness ==
  /\ runner.result # None
  /\ runner.result[1].wire = 2
  /\ Len(runner.result[1].log) = 2
  /\ Challenged(runner.result[1].log[2])


(***************************************************************************)
(* Properties of the digest nonce count (SpecAuth)                         *)
(***************************************************************************)
\* The number eight hexadecimal digits stand for.
RECURSIVE HexValue(_)
HexValue(digits) ==
  IF digits = <<>> THEN 0
  ELSE 16 * HexValue(SubSeq(digits, 1, Len(digits) - 1))
       + digits[Len(digits)]

\* C19: while a digest challenge is in force, the nonce count of the k-th
\* authenticated request since the challenge was installed is k, and every
\* challenge update puts the count back so that the next request uses 1.  A
\* challenge without qop has its requests carry no nonce count, and a
\* header that is no digest challenge updates nothing.
C19_NonceCountIsK ==
  /\ (auth.digest # None /\ authObs.since > 0) =>
       /\ authObs.last # None
       /\ authObs.last[1].scheme = "Digest"
       /\ authObs.last[1].nonce = auth.digest[1].nonce
       /\ IF auth.digest[1].qop
          THEN /\ authObs.last[1].nc # None
               /\ HexValue(authObs.last[1].nc[1]) = authObs.since
               /\ auth.nonce_count = authObs.since
          ELSE /\ authObs.last[1].nc = None
               /\ auth.nonce_count = 0
  /\ (auth.digest # None /\ authObs.since = 0) => auth.nonce_count = 0

\* The second request under the second challenge installed, both with qop,
\* after at least one request under the first.
C19_Witness ==
  /\ auth.digest # None
  /\ auth.digest[1].qop
  /\ authObs.installed = 2
  /\ authObs.since = 2
  /\ authObs.requests >= 3


(***************************************************************************)
(* Properties of the stream parser (SpecParser)                            *)
(***************************************************************************)
\* The events of a stream when every response whose status line does not
\* parse is passed over and every other frame is emitted, in order.
RECURSIVE EventsPassingOver(_)
EventsPassingOver(frames) ==
  IF frames = <<>> THEN <<>>
  ELSE ( IF Head(frames).kind = "interleaved"
         THEN <<[ kind |-> "interleaved", channel |-> Head(frames).channel,
                  payload |-> Head(frames).payload ]>>
         ELSE IF Head(frames).status = 0 THEN <<>>
         ELSE <<[ kind |-> "response", status |-> Head(frames).status,
                  cseq |-> Head(frames).cseq, body |-> Head(frames).body ]>> )
       \o EventsPassingOver(Tail(frames))

MalformedStatus(frame) == frame.kind = "response" /\ frame.status = 0

\* C20: when a completely buffered response has a malformed status line or
\* no CSeq header, the parser consumes the whole frame and no waiting
\* request receives it, and every well-formed interleaved frame and response
\* that follows in the byte stream is still emitted, in order: once the
\* stream has been read, the buffer is empty, the events are those of the
\* other frames and the responses delivered are those that carry a CSeq.
C20_MalformedFramePassedOver ==
  byteStream.unread = <<>> =>
    /\ parserBuf = <<>>
    /\ readerOut.events = EventsPassingOver(byteStream.frames)
    /\ readerOut.delivered = Dispatched(readerOut.events)
    /\ \A i \in 1..Len(readerOut.delivered) :
         readerOut.delivered[i].cseq # None

\* The same for the streams in which every status line parses.
ParsedWhenStatusLinesParse ==
  (\A i \in 1..Len(byteStream.frames) :
     ~MalformedStatus(byteStream.frames[i])) =>
    C20_MalformedFramePassedOver

\* From a response whose status line does not parse on, nothing is emitted
\* and nothing leaves the buffer.
StuckAtMalformedStatus ==
  \A i \in 1..Len(byteStream.frames) :
    ( /\ MalformedStatus(byteStream.frames[i])
      /\ \A j \in 1..(i - 1) : ~MalformedStatus(byteStream.frames[j])
      /\ byteStream.unread = <<>> ) =>
      /\ readerOut.events =
           EventsPassingOver(SubSeq(byteStream.frames, 1, i - 1))
      /\ parserBuf = StreamBytes(SubSeq(byteStream.frames, i,
                                        Len(byteStream.frames)))

\* A response with a malformed status line and an interleaved frame behind
\* it have been read whole: nothing was emitted, both are in the buffer.
C20_Witness ==
  /\ Len(byteStream.frames) = 2
  /\ MalformedStatus(byteStream.frames[1])
  /\ byteStream.frames[2].kind = "interleaved"
  /\ byteStream.unread = <<>>
  /\ readerOut.events = <<>>
  /\ parserBuf = StreamBytes(byteStream.frames)

\* A response without CSeq was emitted by the parser and delivered to no
\* request; the frame behind it was emitted.
NoCseqDropped ==
  /\ Len(byteStream.frames) = 2
  /\ byteStream.frames[1].kind = "response"
  /\ byteStream.frames[1].status = 200
  /\ byteStream.frames[1].cseq = None
  /\ byteStream.unread = <<>>
  /\ Len(readerOut.events) = 2
  /\ readerOut.delivered = <<>>


(***************************************************************************)
(* Properties of the pending-CSeq map (SpecConn)                           *)
(***************************************************************************)
\* C21: once send_request has returned for a CSeq, with a response or with
\* a write error, the pending map holds no entry for that CSeq.
C21_ReturnedNotPending ==
  \A r \in conn.returned : r.cseq \notin conn.pending

\* The same for the calls that returned a response.
AnsweredNotPending ==
  \A r \in conn.returned : r.how = "response" => r.cseq \notin conn.pending

\* The entry of a request is in the map from before the write on: every
\* request the server holds or has answered was registered.
RegisteredBeforeWritten ==
  \A request \in sock.requests : request.cseq \in conn.pending

\* send_request has returned a write error for a CSeq whose sender is still
\* in the map.
C21_Witness ==
  \E r \in conn.returned : r.how = "write error" /\ r.cseq \in conn.pending

\* A response was dispatched and send_request returned it.
AnsweredReturned ==
  \E r \in conn.returned : r.how = "response"


(***************************************************************************)
(* Properties of the keep-alive period (SpecKa)                            *)
(***************************************************************************)
\* t * 0.5 seconds clamped into [1, t - 1] seconds, in milliseconds.
HalfClamped(t) ==
  IF t * 500 < 1000 THEN 1000
  ELSE IF t * 500 > (t - 1) * 1000 THEN (t - 1) * 1000 ELSE t * 500

\* C22: for every session timeout t >= 0 in whole seconds start_keepalive
\* completes and uses a period of t * 0.5 clamped into [1, t - 1] seconds,
\* and a period of 5 seconds when no timeout was advertised.
C22_KeepalivePeriod ==
  keepalive.state # "none" =>
    /\ keepalive.state = "spawned"
    /\ keepalive.read = None => keepalive.interval = KeepaliveDefaultMs
    /\ keepalive.read # None =>
         keepalive.interval = HalfClamped(keepalive.read[1])

\* The same for the timeouts of 2 seconds and more, for which [1, t - 1]
\* is not empty.
KeepalivePeriodFromTwo ==
  (keepalive.state # "none" /\ keepalive.read # None
     /\ keepalive.read[1] >= 2) =>
    /\ keepalive.state = "spawned"
    /\ keepalive.interval = HalfClamped(keepalive.read[1])
    /\ keepalive.interval = keepalive.read[1] * 500

\* start_keepalive panics exactly for the timeouts 0 and 1.
PanicsBelowTwo ==
  keepalive.state = "panicked" <=>
    (keepalive.read # None /\ keepalive.read[1] < 2)

\* The server advertised timeout=1 and start_keepalive panicked.
C22_Witness ==
  /\ keepalive.state = "panicked"
  /\ keepalive.read = Some(1)
  /\ session.timeout = Some(1)

\* The task was spawned with half of an advertised timeout.
HalfPeriodSpawned ==
  /\ keepalive.state = "spawned"
  /\ keepalive.read = Some(30)
  /\ keepalive.interval = 15000


(***************************************************************************)
(* Properties of the RTP time mapper (SpecTime)                            *)
(***************************************************************************)
\* C23: within one session, when every RTP timestamp is the previous one
\* plus a positive increment modulo 2^32, the PTS returned by pts90k never
\* decreases from one packet to the next, the wrap of the 32-bit timestamp
\* included.
C23_PtsNeverDecreases ==
  rtpClock.count >= 2 => ~Below(rtpClock.pts, rtpClock.previous)

\* The PTS is the time elapsed since the first packet, and does not
\* decrease, as long as less than 2^32 ticks have elapsed in the session.
PtsIsElapsedBelowWrap ==
  (rtpClock.count >= 1 /\ ~rtpClock.over) =>
    /\ rtpClock.pts = rtpClock.elapsed
    /\ ~Below(rtpClock.pts, rtpClock.previous)

\* The PTS is the elapsed time modulo 2^32 in every case.
PtsIsElapsedModulo ==
  rtpClock.count >= 1 => rtpClock.pts = rtpClock.elapsed

\* More than 2^32 ticks after the first packet the PTS has fallen back.
C23_Witness ==
  /\ rtpClock.count >= 2
  /\ rtpClock.over
  /\ Below(rtpClock.pts, rtpClock.previous)

\* Base 0xFFFFFF00 followed by 0x00000010 gives PTS 0x110.
WrapOfTimestampCarried ==
  /\ mapper = Some(U32(65535, 65280))
  /\ rtpClock.count = 2
  /\ rtpClock.timestamp = U32(0, 16)
  /\ rtpClock.pts = U32(0, 272)


(***************************************************************************)
(* Properties of the wait for a growing segment (SpecRange)                *)
(***************************************************************************)
\* The request waited for the file to grow and has been answered, and the
\* file is still there.
RangeWaited ==
  /\ rangeReq.deadline > 0
  /\ rangeReq.answer # None
  /\ segFile.exists

RangeStart == rangeReq.header[1].start[1]

\* The last byte asked for in a file of total bytes.
RangeLast(total) ==
  IF rangeReq.header[1].end = None THEN total - 1
  ELSE Min2(rangeReq.header[1].end[1], total - 1)

\* C24: a GET with a Range whose start is at or beyond the length of the
\* file waits for at most 5 seconds for the file to grow: it answers 206
\* with the requested bytes once the file is longer than the start, and 416
\* if the file has not grown past the start by the deadline.
C24_WaitsUntilDeadline ==
  RangeWaited =>
    LET answer == rangeReq.answer[1]
    IN /\ answer.status \in {206, 416}
       /\ answer.status = 206 =>
            /\ answer.at <= rangeReq.deadline
            /\ answer.total > RangeStart
            /\ answer.first = RangeStart
            /\ answer.last = RangeLast(answer.total)
       /\ answer.status = 416 =>
            /\ answer.at >= rangeReq.deadline
            /\ rangeReq.grew = None \/ rangeReq.grew[1] > rangeReq.deadline

\* C24 as the code has it: the file is polled every 150 ms, the last time
\* less than 150 ms after the deadline; the first poll that finds the file
\* longer than the start answers 206 with the bytes from the start to the
\* end asked for, or 416 when that end is below the start; when no poll has
\* found it longer the answer is 416, at the first poll at or after the
\* deadline.
C24_WaitsUntilPollPastDeadline ==
  RangeWaited =>
    LET answer == rangeReq.answer[1]
        endBelowStart == /\ rangeReq.header[1].end # None
                         /\ rangeReq.header[1].end[1] < RangeStart
    IN /\ answer.status \in {206, 416}
       /\ answer.at = rangeReq.polls * RangePollMs
       /\ answer.at < rangeReq.deadline + RangePollMs
       /\ answer.status = 206 =>
            /\ ~endBelowStart
            /\ answer.total > RangeStart
            /\ answer.first = RangeStart
            /\ answer.last = RangeLast(answer.total)
       /\ answer.status = 416 =>
            \/ endBelowStart /\ answer.total > RangeStart
            \/ /\ answer.at >= rangeReq.deadline
               /\ answer.total <= RangeStart
               /\ rangeReq.grew = None \/ rangeReq.grew[1] >= answer.at

\* The file grew after the deadline and before the last poll, and the
\* answer is 206.
C24_Witness ==
  /\ RangeWaited
  /\ rangeReq.answer[1].status = 206
  /\ rangeReq.grew # None
  /\ rangeReq.grew[1] > rangeReq.deadline
  /\ rangeReq.answer[1].at > rangeReq.deadline

\* bytes=0- on a file that stays empty is answered 416 after the deadline.
EmptyFileNotSatisfiable ==
  /\ RangeWaited
  /\ rangeReq.header = Some([ start |-> Some(0), end |-> None ])
  /\ segFile.len = 0
  /\ rangeReq.answer[1].status = 416
  /\ rangeReq.answer[1].at >= RangeWaitMs

\* The file grew before the deadline and the bytes were sent.
GrownFileSent ==
  /\ RangeWaited
  /\ rangeReq.answer[1].status = 206
  /\ rangeReq.answer[1].at < rangeReq.deadline
  /\ rangeReq.answer[1].first = 1
  /\ rangeReq.answer[1].last = 2

\* The file grew past the start of bytes=2-1 and the answer is 416.
EndBelowStartRefused ==
  /\ RangeWaited
  /\ rangeReq.header = Some([ start |-> Some(2), end |-> Some(1) ])
  /\ rangeReq.answer[1].status = 416
  /\ rangeReq.answer[1].at < rangeReq.deadline


(***************************************************************************)
(* Properties of apply_report (SpecReport)                                 *)
(***************************************************************************)
\* The pointers of each field, and the values of the model that are a
\* value of the field: 37 and "41" are a u8 and 300 is not, "" is a job
\* state and no camera URL, an array is a list of AMS units.
FieldPointers ==
  [ job_state |-> { "/print/gcode_state" },
    percent |-> { "/print/mc_percent", "/print/percent" },
    layer_num |-> { "/print/layer_num" },
    total_layer_num |-> { "/print/total_layer_num" },
    remaining_minutes |-> { "/print/mc_remaining_time",
                            "/print/remain_time" },
    nozzle_c |-> { "/print/nozzle_temper", "/temp/nozzle_temper",
                   "/print/device/extruder/info/0/temp" },
    nozzle_target_c |-> { "/print/nozzle_target_temper",
                          "/temp/nozzle_target_temper",
                          "/print/device/extruder/info/0/htar" },
    bed_c |-> { "/print/bed_temper", "/temp/bed_temper",
                "/print/device/bed/info/temp" },
    bed_target_c |-> { "/print/bed_target_temper",
                       "/temp/bed_target_temper" },
    chamber_c |-> { "/print/chamber_temper", "/temp/chamber_temper",
                    "/print/device/ctc/info/temp" },
    light |-> { "/print/lights_report", "/lights_report" },
    rtsp_url |-> { "/print/ipcam/rtsp_url", "/ipcam/rtsp_url" },
    ams |-> { "/print/ams/ams", "/ams/ams" } ]

FieldValues(field) ==
  IF field = "percent"
  THEN { Num(37), Num(41), Str(<<52, 49>>), Str(<<51, 55>>) }
  ELSE IF field \in { "layer_num", "total_layer_num", "remaining_minutes" }
  THEN { Num(37), Num(41), Num(300), Str(<<52, 49>>), Str(<<51, 55>>) }
  ELSE IF field \in { "nozzle_c", "nozzle_target_c", "bed_c",
                      "bed_target_c", "chamber_c" }
  THEN { Num(60), Num(41), Str(<<54, 53>>) }
  ELSE IF field = "job_state" THEN { Str(<<82>>), Str(<<>>) }
  ELSE IF field = "rtsp_url" THEN { Str(<<82>>) }
  ELSE IF field = "light"
  THEN { v \in LightValues :
           \/ v.t = "array" /\ \E i \in 1..Len(v.items) :
                                 /\ v.items[i].node = "chamber_light"
                                 /\ v.items[i].mode # None
           \/ v.t = "object" /\ v.chamber_light # None
                /\ v.chamber_light[1].t \in {"number", "bool", "string"} }
  ELSE { v \in AmsValues : v.t = "array" }

\* The report has no value for the field, or none that can be parsed.
NothingFor(report, field) ==
  \A p \in FieldPointers[field] :
    report[p] = None \/ report[p][1] \notin FieldValues(field)

LastReport ==
  IF reportLog.repeats > 0 /\ Len(reportLog.reports) = 1
  THEN reportLog.reports[1]
  ELSE reportLog.reports[Len(reportLog.reports)]

\* C25: apply_report leaves unchanged every field of the PrinterState,
\* last_update excepted, whose value is absent from the report or cannot
\* be parsed.
C25_UnreportedFieldsKept ==
  reportLog.reports # <<>> =>
    /\ printer.connected = reportLog.before.connected
    /\ \A field \in DOMAIN FieldPointers :
         NothingFor(LastReport, field) =>
           printer[field] = reportLog.before[field]

\* A report with only mc_percent = "37" and then one with only
\* bed_temper = 60 have been applied: percent is 37 and bed_c is 60.
C25_Witness ==
  /\ reportLog.reports =
       << [ EmptyReport EXCEPT
              !["/print/mc_percent"] = Some(Str(<<51, 55>>)) ],
          [ EmptyReport EXCEPT !["/print/bed_temper"] = Some(Num(60)) ] >>
  /\ printer.percent = Some(37)
  /\ printer.bed_c = Some(60)

\* C26: applying the same report N >= 1 times to a default PrinterState
\* yields, in every field except last_update, the state that applying it
\* once yields.
C26_ApplyIdempotent ==
  Len(reportLog.reports) = 1 =>
    /\ \A field \in DOMAIN printer \ {"last_update"} :
         printer[field] = reportLog.once[field]
    /\ printer.last_update = Some(reportLog.repeats + 1)

\* The report with the AMS unit has been applied four times to the default
\* state: the state holds the unit once.
C26_Witness ==
  /\ Len(reportLog.reports) = 1
  /\ reportLog.repeats = MaxRepeats
  /\ Len(printer.ams) = 1
  /\ printer.ams[1].humidity_raw = Some(25)
  /\ Len(printer.ams[1].trays) = 2


(***************************************************************************)
(* Properties of the G-code of Move (SpecGcode)                            *)
(***************************************************************************)
\* The position of the blank that ends the distance of a G1 line.
DistanceEnd(line) == CHOOSE i \in 5..Len(line) : line[i] = " "

RECURSIVE NumberOf(_)
NumberOf(digits) ==
  IF digits = <<>> THEN 0
  ELSE NumberOf(SubSeq(digits, 1, Len(digits) - 1)) * 10
         + (CHOOSE d \in 0..9 : DigitChars[d + 1] = digits[Len(digits)])

\* The value of a decimal text, in ten-thousandths.
TenThousandthsOf(text) ==
  LET unsigned == IF text[1] = "-" THEN Tail(text) ELSE text
      points == { i \in 1..Len(unsigned) : unsigned[i] = "." }
      whole == IF points = {} THEN unsigned
               ELSE SubSeq(unsigned, 1, (CHOOSE i \in points : TRUE) - 1)
      fraction == IF points = {} THEN <<>>
                  ELSE SubSeq(unsigned, (CHOOSE i \in points : TRUE) + 1,
                              Len(unsigned))
      padded == fraction \o SubSeq(<<"0", "0", "0", "0">>, 1,
                                   4 - Len(fraction))
      magnitude == NumberOf(whole) * 10000 + NumberOf(padded)
  IN IF text[1] = "-" THEN -magnitude ELSE magnitude

G1Distance ==
  TenThousandthsOf(SubSeq(moveCmd.line, 5, DistanceEnd(moveCmd.line) - 1))

G1Feed ==
  NumberOf(SubSeq(moveCmd.line, DistanceEnd(moveCmd.line) + 2,
                  Len(moveCmd.line)))

\* The distance and the feed rate of the G1 line are within their bounds,
\* the feed rate is the one asked for when that is within the bounds and
\* the default of the axis when none was asked for, and a distance within
\* the bounds is rendered to the nearest thousandth.
G1WithinBounds ==
  LET request == moveCmd.request[1]
      asked == IF request.feed_rate = None
               THEN IF request.axis = "Z" THEN 600 ELSE 3000
               ELSE request.feed_rate[1]
  IN /\ moveCmd.line[4] = request.axis
     /\ G1Distance >= -500000 /\ G1Distance <= 500000
     /\ G1Feed >= 60 /\ G1Feed <= 12000
     /\ G1Feed = IF asked < 60 THEN 60 ELSE IF asked > 12000 THEN 12000
                 ELSE asked
     /\ ( /\ request.distance.kind = "finite"
          /\ request.distance.v >= -500000
          /\ request.distance.v <= 500000 ) =>
          /\ G1Distance % 10 = 0
          /\ G1Distance - request.distance.v \in -5..5

\* C27: the G1 line of every Move command carries a distance within
\* [-50, 50] mm and a feed rate within [60, 12000]; inputs out of range are
\* clamped to the nearest bound, and an absent feed rate is 3000 for X and
\* Y and 600 for Z.
C27_MoveClamped ==
  moveCmd.request # None =>
    /\ G1WithinBounds
    /\ moveCmd.request[1].distance.v > 500000 => G1Distance = 500000
    /\ moveCmd.request[1].distance.v < -500000 => G1Distance = -500000

\* Move{Z, distance 1000, feed_rate 1} gives G1 Z50 F60.
C27_Witness ==
  /\ moveCmd.request = Some([ axis |-> "Z", distance |-> Finite(10000000),
                              feed_rate |-> Some(1) ])
  /\ moveCmd.line = <<"G", "1", " ", "Z", "5", "0", " ", "F", "6", "0">>

\* A Move of -1.2345 mm gives the distance -1.235 or -1.234.
FractionRendered ==
  /\ moveCmd.request # None
  /\ moveCmd.request[1].distance = Finite(-12345)
  /\ SubSeq(moveCmd.line, 5, 10) = <<"-", "1", ".", "2", "3", "5">>


(***************************************************************************)
(* Properties of the handshake of RtspClient::start (SpecConn)             *)
(***************************************************************************)
Handshake == <<"DESCRIBE", "SETUP", "PLAY">>

\* The call of start in progress has started the keep-alive task.
KeepaliveStarted == conn.keepalive # "none"

\* C28: start writes DESCRIBE, then SETUP, then PLAY, each only after the
\* request before it was answered 200, and starts the keep-alive task only
\* after PLAY was answered 200; once a request of the three is answered
\* otherwise, start has failed, no later request of the handshake is
\* written and the keep-alive task is not started.
C28_HandshakeInOrder ==
  /\ Len(runner.sent) <= 3
  /\ runner.sent = SubSeq(Handshake, 1, Len(runner.sent))
  /\ Len(runner.answers) <= Len(runner.sent)
  /\ \A i \in 1..Len(runner.answers) :
       runner.answers[i].method = Handshake[i]
  /\ \A i \in 2..Len(runner.sent) : runner.answers[i - 1].status = 200
  /\ KeepaliveStarted =>
       /\ Len(runner.answers) = 3
       /\ runner.answers[3].status = 200
  /\ \A i \in 1..Len(runner.answers) :
       runner.answers[i].status # 200 =>
         /\ Len(runner.sent) = i
         /\ Len(runner.answers) = i
         /\ runner.pc \in {"sleep", "idle", "aborted"}
         /\ ~KeepaliveStarted

\* SETUP was answered 454: start has failed after DESCRIBE and SETUP, PLAY
\* was not written and there is no keep-alive task.
C28_Witness ==
  /\ runner.sent = <<"DESCRIBE", "SETUP">>
  /\ runner.answers = << [ method |-> "DESCRIBE", status |-> 200 ],
                         [ method |-> "SETUP", status |-> 454 ] >>
  /\ runner.pc = "sleep"
  /\ ~KeepaliveStarted

\* All three requests were answered 200 and the keep-alive task runs.
HandshakeCompleted ==
  /\ runner.sent = Handshake
  /\ Len(runner.answers) = 3
  /\ runner.pc = "streaming"
  /\ conn.keepalive = "await"


(***************************************************************************)
(* Properties of the segment and part boundaries (SpecCmaf)                *)
(***************************************************************************)
\* The step is a call of push_access_unit that returned Ok.
PushReturnedOk ==
  /\ seg # None
  /\ seg' # None
  /\ cmafObs'.units = cmafObs.units + 1

\* The access unit a push has just added: the last sample of the open part.
LastPushed(current) == current.part_samples[Len(current.part_samples)]

\* C29: a push of access unit x while a segment is in progress closes that
\* segment and opens the next one at x if and only if x is an IDR and its
\* PTS is at least the target duration (in 90 kHz ticks) after the
\* segment's start PTS; otherwise x joins the segment in progress.  A push
\* that opens a segment when none is in progress pushes an IDR.
C29_SegmentBoundary ==
  [][ PushReturnedOk =>
        IF seg[1].current # None
        THEN LET cur == seg[1].current[1]
                 new == seg'[1].current[1]
                 x == LastPushed(new)
                 closed == new.seq # cur.seq
             IN /\ seg'[1].current # None
                /\ closed <=> ( /\ x.is_idr
                                /\ x.pts90k - cur.start_pts
                                     >= cmafCfg.target )
                /\ closed =>
                     /\ cmafObs'.finalized = Some(cur.seq)
                     /\ new.seq = cur.seq + 1
                     /\ new.start_pts = x.pts90k
                     /\ new.frames = 1
                     /\ new.parts = <<>>
                /\ ~closed =>
                     /\ cmafObs'.finalized = cmafObs.finalized
                     /\ new.start_pts = cur.start_pts
                     /\ new.frames = cur.frames + 1
        ELSE seg'[1].current # None =>
               /\ LastPushed(seg'[1].current[1]).is_idr
               /\ seg'[1].current[1].frames = 1 ]_vars

\* With a target of 2 s, IDRs at 0, 90000 and 180000: the IDR at 90000
\* stayed in segment 0, which closed at the IDR with stamp 180000.
C29_Witness ==
  /\ seg # None
  /\ cmafCfg.target = 180000
  /\ cmafObs.units = 3
  /\ cmafObs.finalized = Some(0)
  /\ seg[1].segments # <<>>
  /\ seg[1].segments[Len(seg[1].segments)].seq = 0
  /\ Len(seg[1].segments[Len(seg[1].segments)].parts) = 2
  /\ seg[1].segments[Len(seg[1].segments)].parts[2].independent
  /\ seg[1].current # None
  /\ seg[1].current[1].seq = 1
  /\ seg[1].current[1].start_pts = 180000
  /\ seg[1].current[1].frames = 1

\* A non-IDR unit 183000 ticks after the start stays in the segment.
LateNonIdrStays ==
  /\ seg # None
  /\ seg[1].current # None
  /\ seg[1].current[1].seq = 0
  /\ seg[1].current[1].start_pts = 0
  /\ seg[1].current[1].last_pts = 183000
  /\ ~LastPushed(seg[1].current[1]).is_idr

\* C30: every part recorded for a segment has at least one sample and is
\* marked independent if and only if its first sample is an IDR; part 0 of
\* every segment is independent.
C30_PartsIndependent ==
  seg # None =>
    \A q \in { seg[1].segments[k] : k \in 1..Len(seg[1].segments) }
             \cup { seg[1].current[j] : j \in 1..Len(seg[1].current) } :
      \A i \in 1..Len(q.parts) :
        /\ q.parts[i].samples >= 1
        /\ q.parts[i].independent <=> q.parts[i].first_idr
        /\ q.parts[i].index = 0 => q.parts[i].independent
        /\ i = 1 => q.parts[i].index = 0

\* The segment in progress has part 0 of two samples, independent, and
\* part 1 of two samples that begins with a non-IDR unit, not independent.
C30_Witness ==
  /\ seg # None
  /\ seg[1].current # None
  /\ Len(seg[1].current[1].parts) = 2
  /\ seg[1].current[1].parts[1].samples = 2
  /\ seg[1].current[1].parts[1].independent
  /\ seg[1].current[1].parts[2].samples = 2
  /\ ~seg[1].current[1].parts[2].first_idr
  /\ ~seg[1].current[1].parts[2].independent

\* A part after part 0 that begins with an IDR is independent.
LaterPartIndependent ==
  /\ seg # None
  /\ seg[1].current # None
  /\ Len(seg[1].current[1].parts) = 2
  /\ seg[1].current[1].parts[2].first_idr
  /\ seg[1].current[1].parts[2].independent


(***************************************************************************)
(* Properties of the parser under chunking (SpecParser)                    *)
(***************************************************************************)
\* Every frame of the stream is well-formed.
WellFormedStream ==
  \A i \in 1..Len(byteStream.frames) :
    ~MalformedStatus(byteStream.frames[i])

\* The events of one append of the whole stream.
OneAppend == Drain(StreamBytes(byteStream.frames), <<>>)

\* C31: for a stream of well-formed frames cut into chunks in any way, the
\* events returned by the appends so far, followed by those one append of
\* everything not yet consumed would return, are the events of one append
\* of the whole stream; once the stream has been read they are the events
\* of one append of the whole stream: one per frame, in order, with the
\* frame's channel and payload or status, CSeq and body.
C31_ChunkingIndependent ==
  WellFormedStream =>
    /\ readerOut.events
         \o Drain(parserBuf \o byteStream.unread, <<>>).events
         = OneAppend.events
    /\ byteStream.unread = <<>> =>
         /\ readerOut.events = OneAppend.events
         /\ parserBuf = OneAppend.buffer
    /\ OneAppend.buffer = <<>>
    /\ OneAppend.events = EventsPassingOver(byteStream.frames)
    /\ Len(OneAppend.events) = Len(byteStream.frames)

\* A response with a body and an interleaved frame with a payload: a chunk
\* ended inside the header of the interleaved frame, after the response
\* was returned, and the rest is still to be read.
C31_Witness ==
  /\ WellFormedStream
  /\ Len(byteStream.frames) = 2
  /\ byteStream.frames[1].kind = "response"
  /\ byteStream.frames[1].body # <<>>
  /\ byteStream.frames[2].kind = "interleaved"
  /\ byteStream.frames[2].payload # <<>>
  /\ Len(readerOut.events) = 1
  /\ Len(parserBuf) = 3
  /\ byteStream.unread # <<>>

\* Three frames were read in chunks that ended inside the header lines of
\* a response: the headers and part of the blank line are in the buffer.
CutInsideBlankLine ==
  /\ WellFormedStream
  /\ Len(byteStream.frames) = 3
  /\ byteStream.frames[2].kind = "response"
  /\ Len(readerOut.events) = 1
  /\ parserBuf # <<>>
  /\ parserBuf[Len(parserBuf)] = Cr
  /\ Len(parserBuf) >= 4
  /\ byteStream.unread # <<>>


(***************************************************************************)
(* Properties of the backlog of the stream (SpecCmaf)                      *)
(***************************************************************************)
\* The number of fragments sent on the stream so far.
FragmentsSent == stream.next_seq - 1

\* C32: the backlog holds at most backlog_capacity fragments; they are the
\* most recently sent ones, with consecutive increasing seq values that end
\* with the seq of the last fragment sent; the first fragment sent on a
\* stream has seq 1.
C32_BacklogRecent ==
  /\ Len(stream.backlog) <= stream.backlog_capacity
  /\ Len(stream.backlog) = Min2(FragmentsSent, stream.backlog_capacity)
  /\ \A i \in 1..Len(stream.backlog) :
       stream.backlog[i].seq = FragmentsSent - Len(stream.backlog) + i
  /\ FragmentsSent = 0 <=> stream.last = None
  /\ FragmentsSent > 0 =>
       /\ stream.backlog[Len(stream.backlog)] = stream.last[1]
       /\ stream.last[1].seq = FragmentsSent
  /\ ( FragmentsSent > 0 /\ FragmentsSent <= stream.backlog_capacity ) =>
       stream.backlog[1].seq = 1
  /\ \A i \in 1..Len(stream.backlog) :
       LET entry == stream.backlog[i]
       IN ( entry.bytes.session = cmafObs.session
            /\ entry.seq > cmafObs.before ) =>
            entry.bytes.mfhd = cmafObs.sent[entry.seq - cmafObs.before]

\* Four fragments were sent on a stream of capacity 2: the backlog holds
\* the fragments with seq 3 and 4.
C32_Witness ==
  /\ stream.backlog_capacity = 2
  /\ FragmentsSent = 4
  /\ Len(stream.backlog) = 2
  /\ stream.backlog[1].seq = 3
  /\ stream.backlog[2].seq = 4


(***************************************************************************)
(* Properties of the sample durations of a part (SpecCmaf)                 *)
(***************************************************************************)
\* The part emitted last has at least two samples, of increasing PTS.
SeveralIncreasing(e) ==
  /\ Len(e.pts) >= 2
  /\ \A i \in 1..(Len(e.pts) - 1) : e.pts[i + 1] > e.pts[i]

\* C33: in an emitted part of n >= 2 samples of strictly increasing PTS,
\* sample i < n has the duration pts[i+1] - pts[i] and the last sample has
\* the duration computed for sample n-1 of the same part.
C33_LastSampleDuration ==
  ( cmafObs.emitted # None /\ SeveralIncreasing(cmafObs.emitted[1]) ) =>
    LET e == cmafObs.emitted[1]
        n == Len(e.pts)
    IN /\ \A i \in 1..(n - 1) : e.durations[i] = e.pts[i + 1] - e.pts[i]
       /\ e.durations[n] = e.durations[n - 1]

\* What holds instead: the last sample has the duration of sample n-1 only
\* in a part emitted while last_sample_duration is None, which is the first
\* part of the segmenter; in every later part it has last_sample_duration,
\* the duration of the last sample of the part before.
LastSampleDurationCarried ==
  ( cmafObs.emitted # None /\ SeveralIncreasing(cmafObs.emitted[1]) ) =>
    LET e == cmafObs.emitted[1]
        n == Len(e.pts)
    IN /\ \A i \in 1..(n - 1) : e.durations[i] = e.pts[i + 1] - e.pts[i]
       /\ e.durations[n] = IF e.known = None THEN e.durations[n - 1]
                           ELSE e.known[1]

\* last_sample_duration keeps the value the first part gave it.
LastSampleDurationFrozen ==
  [][ ( seg # None /\ seg' # None /\ seg[1].last_sample_duration # None ) =>
        seg'[1].last_sample_duration = seg[1].last_sample_duration ]_vars

\* The first part had one sample, so that last_sample_duration is the part
\* duration, 29970; the part of the samples at 90000 and 93000 gives them
\* the durations 3000 and 29970.
C33_Witness ==
  /\ cmafObs.emitted # None
  /\ cmafObs.emitted[1].pts = <<90000, 93000>>
  /\ cmafObs.emitted[1].durations = <<3000, 29970>>
  /\ cmafObs.emitted[1].known = Some(29970)

\* The first part of a segmenter, of two samples: both have 3000.
FirstPartLastFromPrevious ==
  /\ cmafObs.emitted # None
  /\ cmafObs.emitted[1].pts = <<0, 3000>>
  /\ cmafObs.emitted[1].durations = <<3000, 3000>>
  /\ cmafObs.emitted[1].known = None


(***************************************************************************)
(* Properties of the parameter sets of the depacketizer (SpecDep)          *)
(***************************************************************************)
\* C34: take_parameter_sets returns a pair only if its SPS or its PPS
\* differs from the pair the previous successful take returned: the same
\* SPS and PPS received again give no new pair.
C34_TakeOnlyChanged ==
  depTake.result # None => depTake.result # depTake.previous

\* What holds instead: the flag is set only when both sets are known, and
\* a take that returns a pair returns the current SPS and PPS.
TakeWhenBothKnown ==
  /\ dep.parameter_sets_dirty => ( dep.sps # None /\ dep.pps # None )
  /\ depTake.result # None =>
       ( dep.sps # None /\ dep.pps # None
         /\ depTake.result = Some(<<dep.sps[1], dep.pps[1]>>) )

\* The same for the flag, which does not hold either: a packet that leaves
\* the SPS and the PPS as they were does not set the flag.
DirtyOnlyOnChange ==
  [][ ( dep'.sps = dep.sps /\ dep'.pps = dep.pps
        /\ ~dep.parameter_sets_dirty ) =>
        ~dep'.parameter_sets_dirty ]_vars

\* The SPS arrived again with the same bytes after a take: the next take
\* returned the same pair once more.
C34_Witness ==
  /\ depTake.result = Some(<<NalSps, <<104, 206>> >>)
  /\ depTake.previous = depTake.result
  /\ ~dep.parameter_sets_dirty


(***************************************************************************)
(* Properties of the handshake under back-pressure (SpecHs)                *)
(***************************************************************************)
\* start awaits a response while the reader waits for a slot of the full
\* queue, which nothing reads before start has returned.
Wedged ==
  /\ hsStart.pc = "await"
  /\ ~hsStart.delivered
  /\ hsReader = "send"
  /\ hsQueue = INTERLEAVED_CAPACITY

\* C35: the handshake cannot deadlock on back-pressure: while start awaits
\* a response the reader is never left waiting on the full interleaved
\* queue (a wait that nothing ends, see WedgedForever), so that a response
\* sent after any number of interleaved frames reaches the request.
C35_HandshakeNeverWedged == ~Wedged

\* Once wedged, always wedged: no step of start, of the reader or of the
\* server changes start, the reader or the queue again.
WedgedForever ==
  [][ Wedged => ( Wedged' /\ UNCHANGED <<hsStart, hsReader, hsQueue>> ) ]_vars

\* A response behind at most 64 interleaved frames reaches the request:
\* while start is waiting and fewer than 65 frames were sent, the reader is
\* not wedged.
DeliveredBehindFewFrames ==
  ( hsStart.pc = "await" /\ hsWire.frames <= INTERLEAVED_CAPACITY ) =>
    ~Wedged

\* The server sent 65 interleaved frames and then the response to PLAY:
\* 64 packets are in the queue, the reader holds the 65th, the response is
\* unread and start is waiting for it.
C35_Witness ==
  /\ Wedged
  /\ hsStart.method = "PLAY"
  /\ hsWire.frames = 65
  /\ hsWire.ahead = 0
  /\ hsWire.response

\* The handshake completed behind 64 frames and run_session has emptied
\* the queue.
HandshakeBehindFrames ==
  /\ hsStart.pc = "streaming"
  /\ hsWire.frames >= INTERLEAVED_CAPACITY
  /\ hsWire.ahead = 0
  /\ hsWire.behind = 0
  /\ hsReader = "read"
  /\ hsQueue = 0


(***************************************************************************)
(* Properties of the publishing of commands (SpecRq)                       *)
(***************************************************************************)
\* The task waits in client.publish on the full request channel, which only
\* the event loop empties, and only this task polls the event loop.
PublishWedged ==
  /\ rqTask.pc = "publish"
  /\ Len(rqClient.requests) = REQUEST_CAPACITY

\* C36: the MQTT task never blocks forever while publishing a command: it
\* is never left waiting in publish on the full request channel (a wait
\* that nothing ends, see PublishWedgedForever), so that after taking a
\* command it always returns to polling the event loop.
C36_PublishNeverWedged == ~PublishWedged

\* Once the task waits on the full channel, the task and the channel stay
\* as they are.
PublishWedgedForever ==
  [][ PublishWedged =>
        ( PublishWedged' /\ UNCHANGED <<rqTask, rqClient>> ) ]_vars

\* While the channel has room, publish returns at the next step of the task.
PublishReturnsWithRoom ==
  ( rqTask.pc = "publish" /\ ~PublishWedged ) => ENABLED RqPublish

\* SUBSCRIBE and nine commands are in the request channel and the task
\* waits in publish with the tenth command, the connection being up.
C36_Witness ==
  /\ PublishWedged
  /\ rqClient.up
  /\ Head(rqClient.requests) = "subscribe"
  /\ rqHttp.connected

\* C37: a command that POST command answered 200 is not lost when the
\* connection drops between its acceptance and its transmission: it is
\* never dropped with the requests of a client that is replaced, and it
\* is transmitted at most once.
C37_AcceptedNeverDropped ==
  /\ ~rqObs.dropped
  /\ rqObs.transmitted <= 1

\* What holds: a command is transmitted at most once, and never when it
\* was dropped.
TransmittedAtMostOnce ==
  /\ rqObs.transmitted <= 1
  /\ rqObs.dropped => rqObs.transmitted = 0

\* A dropped command is never transmitted later.
DroppedForever ==
  [][ rqObs.dropped => ( rqObs'.dropped /\ rqObs'.transmitted = 0 ) ]_vars

\* The followed command was accepted and published, the connection dropped
\* before the event loop had written it, and the connection is up again
\* with nothing left to send: the command was not transmitted.
C37_Witness ==
  /\ rqObs.picked
  /\ rqObs.dropped
  /\ rqObs.transmitted = 0
  /\ rqClient.up
  /\ rqHttp.connected
  /\ rqClient.requests = <<>>
  /\ rqHttp.commands = <<>>
  /\ rqTask.pc = "loop"

\* The followed command was transmitted.
CommandTransmitted ==
  /\ rqObs.picked
  /\ rqObs.transmitted = 1


(***************************************************************************)
(* Properties of the playlist and the files it names (SpecCmaf)            *)
(***************************************************************************)
\* C39: at every moment of a session every segment file named in the
\* visible stream.m3u8 exists in the output directory, also between the
\* unlinking of an evicted segment and the publication of the playlist
\* that no longer lists it.
C39_ListedFilesExist ==
  /\ MissingSegments(dir.playlist, dir) = {}
  /\ cmafObs.gap = {}

\* What holds: once a call of the segmenter has returned, the playlist it
\* left names only files of the directory.
ListedFilesExistAtRest == MissingSegments(dir.playlist, dir) = {}

\* A segment was evicted in a running session: while its file was unlinked
\* the visible playlist still named it, and the playlist written afterwards
\* names only files that exist.
C39_Witness ==
  /\ seg # None
  /\ cmafCfg.window >= 1
  /\ cmafObs.gap # {}
  /\ dir.playlist # None
  /\ MissingSegments(dir.playlist, dir) = {}
  /\ cmafObs.finalized # None


(***************************************************************************)
(* Properties of the init segment and the fragments (SpecCmaf)             *)
(***************************************************************************)
\* A step in which send_fragment was called.
FragmentBroadcast == stream'.next_seq > stream.next_seq

\* C40: whenever a CMAF fragment is broadcast, the init slot of the same
\* CmafStream already holds an init segment.
C40_InitBeforeFragments ==
  [][ FragmentBroadcast => stream'.init # None ]_vars

\* What holds: the init segment a segmenter has built is the one in the
\* init slot of its stream.
InitPublishedWhenBuilt ==
  ( seg # None /\ seg[1].last_init_sps # None )
    => stream.init = Some([ sps |-> seg[1].last_init_sps[1],
                            pps |-> seg[1].last_init_pps[1] ])

\* Fragments were broadcast by a session that never learnt SPS and PPS: the
\* backlog holds a fragment and the init slot is empty.
C40_Witness ==
  /\ seg # None
  /\ seg[1].sps = None
  /\ stream.backlog # <<>>
  /\ stream.init = None
  /\ cmafObs.sent # <<>>

\* Fragments were broadcast behind an init segment.
FragmentsBehindInit ==
  /\ seg # None
  /\ stream.backlog # <<>>
  /\ stream.init # None


(***************************************************************************)
(* Properties of the tasks of a connection after its session (SpecConn)    *)
(***************************************************************************)
\* The keep-alive task of the current connection is alive.
KeepaliveAlive == conn.keepalive \in {"sleep", "retry", "await"}

\* C38: after an RTSP session ended, the reader and the keep-alive task of
\* its connection terminate, so that the device has no more than one
\* keep-alive task alive once its next session is playing: the keep-alive
\* of the connection before is not left waiting for ever beside the
\* keep-alive of the session that plays.
C38_OneKeepalive ==
  ~( runner.pc = "streaming" /\ KeepaliveAlive /\ runner.orphan )

\* A keep-alive task that waits for a response after its reader returned
\* waits as long as its connection is the runner's.
KeepaliveWedgedForever ==
  [][ ( KeepaliveWedged(conn) /\ runner'.attempt = runner.attempt )
        => KeepaliveWedged(conn') ]_vars

\* The second session plays with its own keep-alive started while the
\* keep-alive of the first connection still waits for the response to its
\* OPTIONS.
C38_Witness ==
  /\ runner.pc = "streaming"
  /\ runner.attempt = 2
  /\ KeepaliveAlive
  /\ runner.orphan
  /\ conn.reader = "running"
====
